---- MODULE Spec2Model ----
(***************************************************************************)
(* Racelith penalty tracking: the dashboard client (App, InfringementLog,  *)
(* PendingPenalties), the popup window script and the REST/WebSocket       *)
(* server they talk to.  Times are whole minutes.                          *)
(***************************************************************************)
EXTENDS Integers, Sequences, FiniteSets, TLC

\* ------------------------------------------------------------------ bounds
MaxRecords == 3
MaxTime == 3
\* the configurable warning_expiry_minutes, scaled from its default of 180
ExpiryMinutes == 2

\* ------------------------------------------------------------- vocabulary
NULL == "<null>"

Karts == {7, 42}
Descriptions == {"White Line Infringement", "Yellow Zone Infringement", "Track Limits"}
PenaltyDescriptions == {NULL, "Warning", "No further action", "5 Sec"}

\* String.prototype.toLowerCase on the strings the model uses
toLowerCase(s) ==
  CASE s = "White Line Infringement" -> "white line infringement"
    [] s = "Yellow Zone Infringement" -> "yellow zone infringement"
    [] s = "Track Limits" -> "track limits"
    [] s = "Warning" -> "warning"
    [] s = "No further action" -> "no further action"
    [] s = "5 Sec" -> "5 sec"
    [] OTHER -> s

\* String.prototype.includes for the two accrual phrases
includes(s, phrase) ==
  \/ phrase = "white line infringement" /\ s = "white line infringement"
  \/ phrase = "yellow zone" /\ s = "yellow zone infringement"

\* JavaScript truthiness of a nullable string field
Truthy(v) == v # NULL /\ v # ""

\* (v || '')
OrEmpty(v) == IF Truthy(v) THEN v ELSE ""

Max(a, b) == IF a >= b THEN a ELSE b
Min(a, b) == IF a <= b THEN a ELSE b

\* ------------------------------------------------------------ array helpers
\* insert x behind every element it does not sort strictly before (stable)
RECURSIVE InsertAsc(_, _)
InsertAsc(s, x) ==
  IF s = <<>> THEN <<x>>
  ELSE IF x.timestamp < s[Len(s)].timestamp
       THEN InsertAsc(SubSeq(s, 1, Len(s) - 1), x) \o <<s[Len(s)]>>
       ELSE s \o <<x>>

\* Array.prototype.sort((a, b) => time(a) - time(b)): stable, oldest first
RECURSIVE SortAsc(_)
SortAsc(s) ==
  IF s = <<>> THEN <<>>
  ELSE InsertAsc(SortAsc(SubSeq(s, 1, Len(s) - 1)), s[Len(s)])

RECURSIVE InsertDesc(_, _)
InsertDesc(s, x) ==
  IF s = <<>> THEN <<x>>
  ELSE IF x.timestamp > s[Len(s)].timestamp
       THEN InsertDesc(SubSeq(s, 1, Len(s) - 1), x) \o <<s[Len(s)]>>
       ELSE s \o <<x>>

\* Array.prototype.sort((a, b) => time(b) - time(a)): stable, newest first
RECURSIVE SortDesc(_)
SortDesc(s) ==
  IF s = <<>> THEN <<>>
  ELSE InsertDesc(SortDesc(SubSeq(s, 1, Len(s) - 1)), s[Len(s)])

\* Array.prototype.findIndex(w => w.id === id), 0-based, -1 when absent
RECURSIVE findIndexFrom(_, _, _)
findIndexFrom(s, id, k) ==
  IF s = <<>> THEN -1
  ELSE IF Head(s).id = id THEN k
       ELSE findIndexFrom(Tail(s), id, k + 1)

findIndex(s, id) == findIndexFrom(s, id, 0)

Ids(s) == {s[k].id : k \in 1..Len(s)}

\* ------------------------------------------------- dashboard table (InfringementLog)
isPenaltyEntry(inf) ==
  LET description == toLowerCase(OrEmpty(inf.penalty_description))
      hasMeaningfulPenalty ==
        /\ Truthy(inf.penalty_description)
        /\ description # "warning"
        /\ description # "no further action"
      pendingPenalty == inf.penalty_due = "Yes" /\ hasMeaningfulPenalty
      appliedPenalty ==
        inf.penalty_due = "No" /\ Truthy(inf.penalty_taken) /\ hasMeaningfulPenalty
  IN pendingPenalty \/ appliedPenalty

\* variant: a warning counts as expired from the threshold age on
isWarningExpiredAtThreshold(inf, t, expiry) ==
  IF inf.penalty_description # "Warning" THEN FALSE
  ELSE (t - inf.timestamp) >= expiry

isWarningExpired(inf, t, expiry) ==
  IF inf.penalty_description # "Warning" THEN FALSE
  ELSE (t - inf.timestamp) > expiry

\* the phrase isSecondWarning matches the other records against
TypePhrase(inf) ==
  IF includes(toLowerCase(OrEmpty(inf.description)), "white line infringement")
  THEN "white line infringement" ELSE "yellow zone"

lastPenaltyOf(inf, all) ==
  LET keep(i) ==
        /\ i.kart_number = inf.kart_number
        /\ Truthy(i.description)
        /\ includes(toLowerCase(i.description), TypePhrase(inf))
        /\ i.penalty_due = "Yes"
  IN SortDesc(SelectSeq(all, keep))

\* variant: the cycle starts at the expiry threshold whatever penalty fell due
cycleStartOfExpiryOnly(inf, all, t, expiry) == t - expiry

cycleStartOf(inf, all, t, expiry) ==
  LET expiryThreshold == t - expiry
      lastPenalty == lastPenaltyOf(inf, all)
  IN IF lastPenalty # <<>>
     THEN Max(expiryThreshold, lastPenalty[1].timestamp)
     ELSE expiryThreshold

\* variant: the warnings of the kart are counted whatever their type
validWarningsOfAnyType(inf, all, t, expiry) ==
  LET cycleStart == cycleStartOf(inf, all, t, expiry)
      keep(i) ==
        /\ i.kart_number = inf.kart_number
        /\ i.penalty_description = "Warning"
        /\ i.penalty_due # "Yes"
        /\ ~(i.timestamp < cycleStart)
        /\ ~isWarningExpired(i, t, expiry)
        /\ i.timestamp <= inf.timestamp
  IN SortAsc(SelectSeq(all, keep))

validWarningsOf(inf, all, t, expiry) ==
  LET cycleStart == cycleStartOf(inf, all, t, expiry)
      keep(i) ==
        /\ i.kart_number = inf.kart_number
        /\ includes(toLowerCase(OrEmpty(i.description)), TypePhrase(inf))
        /\ i.penalty_description = "Warning"
        /\ i.penalty_due # "Yes"
        /\ ~(i.timestamp < cycleStart)
        /\ ~isWarningExpired(i, t, expiry)
        /\ i.timestamp <= inf.timestamp
  IN SortAsc(SelectSeq(all, keep))

\* variant: every warning from the second on carries the flag
isSecondWarningOrLater(inf, all, t, expiry) ==
  LET description == toLowerCase(OrEmpty(inf.description))
      isWhiteLine == includes(description, "white line infringement")
      isYellowZone == includes(description, "yellow zone")
  IN IF inf.penalty_description # "Warning" THEN FALSE
     ELSE IF ~isWhiteLine /\ ~isYellowZone THEN FALSE
     ELSE IF isWarningExpired(inf, t, expiry) THEN FALSE
     ELSE findIndex(validWarningsOf(inf, all, t, expiry), inf.id) >= 1

isSecondWarning(inf, all, t, expiry) ==
  LET description == toLowerCase(OrEmpty(inf.description))
      isWhiteLine == includes(description, "white line infringement")
      isYellowZone == includes(description, "yellow zone")
  IN IF inf.penalty_description # "Warning" THEN FALSE
     ELSE IF ~isWhiteLine /\ ~isYellowZone THEN FALSE
     ELSE IF isWarningExpired(inf, t, expiry) THEN FALSE
     ELSE findIndex(validWarningsOf(inf, all, t, expiry), inf.id) = 1

\* variant: the Warning rule is tried before the Expired rule
statusLabelWarningFirst(inf, t, expiry) ==
  LET isWarning == inf.penalty_description = "Warning"
      isExpiredWarning == isWarning /\ (t - inf.timestamp) > expiry
      penaltyApplied ==
        inf.penalty_due = "No" /\ Truthy(inf.penalty_taken) /\ ~isWarning
      isNoFurtherAction == inf.penalty_description = "No further action"
  IN IF penaltyApplied THEN "Applied"
     ELSE IF isWarning THEN "Warning"
     ELSE IF isExpiredWarning THEN "Expired"
     ELSE IF isNoFurtherAction /\ inf.penalty_due = "No" THEN "No action"
     ELSE IF inf.penalty_due = "Yes" THEN "Pending"
     ELSE "Cleared"

statusLabel(inf, t, expiry) ==
  LET isWarning == inf.penalty_description = "Warning"
      isExpiredWarning == isWarning /\ (t - inf.timestamp) > expiry
      penaltyApplied ==
        inf.penalty_due = "No" /\ Truthy(inf.penalty_taken) /\ ~isWarning
      isNoFurtherAction == inf.penalty_description = "No further action"
  IN IF penaltyApplied THEN "Applied"
     ELSE IF isExpiredWarning THEN "Expired"
     ELSE IF isWarning THEN "Warning"
     ELSE IF isNoFurtherAction /\ inf.penalty_due = "No" THEN "No action"
     ELSE IF inf.penalty_due = "Yes" THEN "Pending"
     ELSE "Cleared"

\* the plain table of frontend/src/components/InfringementLog.tsx
statusBadge(inf) ==
  LET penaltyApplied == inf.penalty_due = "No" /\ Truthy(inf.penalty_taken)
  IN IF penaltyApplied THEN "Applied"
     ELSE IF inf.penalty_due = "Yes" THEN "Pending" ELSE "Cleared"

\* ---------------------------------------------------------- popup window script
isExpired(inf, t, expiry) ==
  IF inf.penalty_description # "Warning" THEN FALSE
  ELSE (t - inf.timestamp) > expiry

popupIsPenaltyEntry(inf) ==
  LET description == toLowerCase(OrEmpty(inf.penalty_description))
      hasMeaningfulPenalty ==
        /\ Truthy(inf.penalty_description)
        /\ description # "warning"
        /\ description # "no further action"
      pendingPenalty == inf.penalty_due = "Yes" /\ hasMeaningfulPenalty
      appliedPenalty ==
        /\ inf.penalty_due = "No"
        /\ Truthy(inf.penalty_taken)
        /\ ~(inf.penalty_description = "Warning")
  IN pendingPenalty \/ appliedPenalty

getStatus(inf, t, expiry) ==
  LET isWarning == inf.penalty_description = "Warning"
      applied == inf.penalty_due = "No" /\ Truthy(inf.penalty_taken) /\ ~isWarning
      isNoFurtherAction == inf.penalty_description = "No further action"
  IN IF applied THEN "Applied"
     ELSE IF isExpired(inf, t, expiry) THEN "Expired"
     ELSE IF isWarning THEN "Warning"
     ELSE IF isNoFurtherAction /\ inf.penalty_due = "No" THEN "No action"
     ELSE IF inf.penalty_due = "Yes" THEN "Pending"
     ELSE "Cleared"

popupLastPenaltyOf(inf, all) ==
  LET keep(i) ==
        /\ i.kart_number = inf.kart_number
        /\ Truthy(i.description)
        /\ includes(toLowerCase(i.description), TypePhrase(inf))
        /\ i.penalty_due = "Yes"
  IN SortDesc(SelectSeq(all, keep))

popupValidWarningsOf(inf, all, t, expiry) ==
  LET expiryThreshold == t - expiry
      lastPenalty == popupLastPenaltyOf(inf, all)
      cycleStart ==
        IF lastPenalty # <<>>
        THEN Max(expiryThreshold, lastPenalty[1].timestamp)
        ELSE expiryThreshold
      keep(i) ==
        /\ i.kart_number = inf.kart_number
        /\ includes(toLowerCase(OrEmpty(i.description)), TypePhrase(inf))
        /\ i.penalty_description = "Warning"
        /\ i.penalty_due # "Yes"
        /\ ~(i.timestamp < cycleStart)
        /\ ~isExpired(i, t, expiry)
        /\ i.timestamp <= inf.timestamp
  IN SortAsc(SelectSeq(all, keep))

popupIsSecondWarning(inf, all, t, expiry) ==
  LET description == toLowerCase(OrEmpty(inf.description))
      isWhiteLine == includes(description, "white line infringement")
      isYellowZone == includes(description, "yellow zone")
  IN IF inf.penalty_description # "Warning" THEN FALSE
     ELSE IF ~isWhiteLine /\ ~isYellowZone THEN FALSE
     ELSE IF isExpired(inf, t, expiry) THEN FALSE
     ELSE findIndex(popupValidWarningsOf(inf, all, t, expiry), inf.id) = 1

\* ------------------------------------------------------------------- state
VARIABLES
  now,                    \* the wall clock, in minutes
  infringements,          \* App state: the records the dashboard table shows
  warningExpiryMinutes,   \* App state: the expiry threshold of the dashboard
  filterType,             \* InfringementLog state: 'all' | 'warning-flag' | 'penalties'
  dashRows,               \* what the dashboard table last rendered
  plainRows,              \* what the plain table last rendered
  WARNING_EXPIRY_MINUTES, \* popup: the threshold written into the script
  popupData,              \* popup: the data refreshTable fetched
  filterValue,            \* popup: the value of #filterSelect
  tbody,                  \* popup: the rows refreshTable wrote
  popupFetching,          \* popup: the refreshTable calls waiting for their response
  server,                 \* server: the infringements of the active session, newest first
  history,                \* server: the audit entries, oldest first
  pendingPenalties,       \* App state: the pending-penalty list
  isApplyingPenalty,      \* App state
  paginationPage,         \* App state
  paginationLimit,        \* App state
  applyCalls,             \* the handleApplyPenalty calls that have not returned
  loads,                  \* the loadData calls that have not returned
  dashInbox,              \* WebSocket frames on their way to the dashboard
  popupInbox,             \* WebSocket frames on their way to the popup window
  toasts,                 \* the notifications of the handler that last showed any
  deleteCalls,            \* the handleDeleteInfringement calls that have not returned
  createCalls,            \* the handleNewInfringement calls that have not returned
  editCalls,              \* the handleSaveEdit calls that have not returned
  sessionActive,          \* server: a session has status active
  hasActiveSession,       \* App state: "null" until the first check, then "true" | "false"
  loadError,              \* App state: the text of the Unable to Load Data alert, or NULL
  showExpirySettings,     \* App state
  passwordDialogOpen,     \* App state
  passwordInput,          \* App state
  isSavingConfig,         \* App state
  configCalls,            \* the handleSaveExpiryMinutes calls that have not returned
  serverConfig,           \* server: warning_expiry_minutes of /api/config
  currentView,            \* App state: 'sessions' | 'penalty-logging'
  sessionCalls,           \* the SessionManager handler calls that have not returned
  device,                 \* shell: what getFingerprint computes on this machine
  storedLicense,          \* shell: the license of license.json, or NULL
  currentFingerprint,     \* shell: module variable, '' until ensureLicense ran
  pendingLicenseResolve,  \* shell: the startApplication run whose promise it resolves, or 0
  startups,               \* shell: the startApplication runs and where each one stands
  mainWindow,             \* shell: what the window shows, or "destroyed"
  submitReplies,          \* shell: what the submit-license handler returned, oldest first
  sockets,                \* WebSocketManager: every WebSocket it constructed, oldest first
  socket,                 \* WebSocketManager: this.socket, an index of sockets or 0
  reconnectTimeout,       \* WebSocketManager: the timer this.reconnectTimeout holds, or 0
  reconnectAttempts,      \* WebSocketManager
  handlers,               \* WebSocketManager: the subscribed handlers
  isConnecting,           \* WebSocketManager
  hasConnectedOnce,       \* WebSocketManager
  initialTimers,          \* WebSocketManager: the initialDelay timers of subscribe not yet fired
  reconnectTimers,        \* WebSocketManager: the reconnect timers set and neither fired nor cleared
  url,                    \* WebSocketManager: this.url
  delivered,              \* per handler, how often it was called with the server's message
  kartNumber,             \* InfringementForm state: the text of the kart number field
  isSubmitting,           \* InfringementForm state
  infringement,           \* InfringementForm state: the infringement type field
  penaltyDescription      \* InfringementForm state: the penalty description field

callVars == <<deleteCalls, createCalls, editCalls>>

sessionVars == <<sessionActive, hasActiveSession, loadError>>

settingsVars == <<showExpirySettings, passwordDialogOpen, passwordInput, isSavingConfig,
                  configCalls, serverConfig>>

managerVars == <<currentView, sessionCalls>>

shellVars == <<device, storedLicense, currentFingerprint, pendingLicenseResolve, startups,
               mainWindow, submitReplies>>

wsVars == <<sockets, socket, reconnectTimeout, reconnectAttempts, handlers, isConnecting,
            hasConnectedOnce, initialTimers, reconnectTimers, url, delivered>>

formVars == <<kartNumber, isSubmitting, infringement, penaltyDescription>>

deskVars == <<shellVars, wsVars, formVars>>

asideVars == <<settingsVars, managerVars, deskVars>>

sysVars == <<popupFetching, server, history, pendingPenalties, isApplyingPenalty,
             paginationPage, paginationLimit, applyCalls, loads,
             dashInbox, popupInbox, toasts, callVars, sessionVars, asideVars>>

vars == <<now, infringements, warningExpiryMinutes, filterType, dashRows, plainRows,
          WARNING_EXPIRY_MINUTES, popupData, filterValue, tbody, sysVars>>

FilterTypes == {"all", "warning-flag", "penalties"}

\* a string is the sequence of its pieces; null and undefined, which are no
\* strings, are this one value
NotAString == <<NULL>>

\* the two components that subscribe to the shared manager
Handlers == {"App", "SessionManager"}

\* the desktop shell before app.whenReady: no window, no run, no license file
ShellNotStarted ==
  /\ device = "A"
  /\ storedLicense = NotAString
  /\ currentFingerprint = ""
  /\ pendingLicenseResolve = 0
  /\ startups = <<>>
  /\ mainWindow = "none"
  /\ submitReplies = <<>>

\* wsManager as its field initialisers and constructor leave it
WsConstructed ==
  /\ sockets = <<>>
  /\ socket = 0
  /\ reconnectTimeout = 0
  /\ reconnectAttempts = 0
  /\ handlers = {}
  /\ isConnecting = FALSE
  /\ hasConnectedOnce = FALSE
  /\ initialTimers = 0
  /\ reconnectTimers = {}
  /\ url = "ws://localhost:8000/ws"
  /\ delivered = [h \in Handlers |-> 0]

\* InfringementForm as its useState calls leave it
FormEmpty ==
  /\ kartNumber = <<>>
  /\ isSubmitting = FALSE
  /\ infringement = ""
  /\ penaltyDescription = ""

\* -------------------------------------------------------------- rendering
\* InfringementLog: filteredInfringements, then one row per record
filteredInfringements(list, ft, t, expiry) ==
  LET keep(inf) ==
        IF ft = "penalties" THEN isPenaltyEntry(inf)
        ELSE IF ft = "warning-flag" THEN isSecondWarning(inf, list, t, expiry)
        ELSE TRUE
  IN SelectSeq(list, keep)

TableRow(inf, list, t, expiry) ==
  [id |-> inf.id,
   statusLabel |-> statusLabel(inf, t, expiry),
   showWarningFlag |-> isSecondWarning(inf, list, t, expiry)]

RenderTable ==
  LET shown == filteredInfringements(infringements, filterType, now, warningExpiryMinutes)
  IN /\ dashRows' = [k \in 1..Len(shown) |->
                       TableRow(shown[k], infringements, now, warningExpiryMinutes)]
     /\ UNCHANGED <<sysVars, now, infringements, warningExpiryMinutes, filterType, plainRows,
                    WARNING_EXPIRY_MINUTES, popupData, filterValue, tbody>>

\* the filter select of the dashboard table; React renders again with the new value
SetFilterType ==
  \E value \in FilterTypes \ {filterType} :
    LET shown == filteredInfringements(infringements, value, now, warningExpiryMinutes)
    IN /\ filterType' = value
       /\ dashRows' = [k \in 1..Len(shown) |->
                         TableRow(shown[k], infringements, now, warningExpiryMinutes)]
       /\ UNCHANGED <<sysVars, now, infringements, warningExpiryMinutes, plainRows,
                      WARNING_EXPIRY_MINUTES, popupData, filterValue, tbody>>

\* frontend/src/components/InfringementLog.tsx: every record, one badge each
RenderPlainTable ==
  /\ plainRows' = [k \in 1..Len(infringements) |->
                     [id |-> infringements[k].id,
                      statusLabel |-> statusBadge(infringements[k])]]
  /\ UNCHANGED <<sysVars, now, infringements, warningExpiryMinutes, filterType, dashRows,
                 WARNING_EXPIRY_MINUTES, popupData, filterValue, tbody>>

\* popup refreshTable, from the fetched data on: filter, then generateRowHTML
popupFiltered(data, fv, t, expiry) ==
  LET keepPenalty(inf) == popupIsPenaltyEntry(inf)
      keepFlag(inf) == popupIsSecondWarning(inf, data, t, expiry)
  IN IF fv = "penalties" THEN SelectSeq(data, keepPenalty)
     ELSE IF fv = "warning-flag" THEN SelectSeq(data, keepFlag)
     ELSE data

generateRowHTML(inf, data, t, expiry) ==
  [id |-> inf.id,
   statusLabel |-> getStatus(inf, t, expiry),
   showWarningFlag |-> popupIsSecondWarning(inf, data, t, expiry)]

PopupRows(data, fv, t, expiry) ==
  LET filtered == popupFiltered(data, fv, t, expiry)
  IN [k \in 1..Len(filtered) |-> generateRowHTML(filtered[k], data, t, expiry)]

RenderPopup ==
  /\ tbody' = PopupRows(popupData, filterValue, now, WARNING_EXPIRY_MINUTES)
  /\ UNCHANGED <<sysVars, now, infringements, warningExpiryMinutes, filterType, dashRows,
                 plainRows, WARNING_EXPIRY_MINUTES, popupData, filterValue>>

\* #filterSelect change -> filterTable -> refreshTable
filterTable ==
  \E value \in FilterTypes \ {filterValue} :
    /\ filterValue' = value
    /\ tbody' = PopupRows(popupData, value, now, WARNING_EXPIRY_MINUTES)
    /\ UNCHANGED <<sysVars, now, infringements, warningExpiryMinutes, filterType, dashRows,
                   plainRows, WARNING_EXPIRY_MINUTES, popupData>>

\* ------------------------------------------------- inputs of the pure functions
\* records as the server hands them out: newest first, ids in order of creation,
\* timestamps never decreasing with the id, the oldest one logged at minute 0
Record(id, kart, desc, pd, due, taken, ts) ==
  [id |-> id, kart_number |-> kart, description |-> desc, penalty_description |-> pd,
   penalty_due |-> due, penalty_taken |-> taken, timestamp |-> ts]

\* (penalty_description, penalty_due, penalty_taken); penalty_due "Yes" has no penalty_taken
Dispositions ==
  {<<pd, due, taken>> \in PenaltyDescriptions \X {"Yes", "No"} \X {NULL, "Race Control Operator"} :
     due = "Yes" => taken = NULL}

RecordsAt(id, Kinds) ==
  {Record(id, kart, desc, d[1], d[2], d[3], ts) :
     kart \in Kinds.kart, desc \in Kinds.desc, d \in Kinds.disp, ts \in 0..MaxTime}

KindTuples(Kinds) == Kinds.kart \X Kinds.desc \X Kinds.disp

\* the timestamps of n records, newest first, the oldest logged at minute 0
RECURSIVE TimesOfLen(_)
TimesOfLen(n) ==
  IF n = 0 THEN {<<>>}
  ELSE {<<t>> \o s : <<t, s>> \in
          {<<t, s>> \in (0..MaxTime) \X TimesOfLen(n - 1) :
             IF s = <<>> THEN t = 0 ELSE t >= s[1]}}

InitRender(Kinds, Lengths) ==
  /\ \E n \in Lengths : \E ts \in TimesOfLen(n) : \E kind \in [1..n -> KindTuples(Kinds)] :
       infringements =
         [k \in 1..n |->
            Record(n - k + 1, kind[k][1], kind[k][2], kind[k][3][1], kind[k][3][2],
                   kind[k][3][3], ts[k])]
  /\ popupData = infringements
  /\ now \in 0..MaxTime
  /\ \A k \in 1..Len(infringements) : infringements[k].timestamp <= now
  /\ warningExpiryMinutes = ExpiryMinutes
  /\ WARNING_EXPIRY_MINUTES = ExpiryMinutes
  /\ filterType = "all"
  /\ filterValue = "all"
  /\ dashRows = <<>>
  /\ plainRows = <<>>
  /\ tbody = <<>>
  /\ popupFetching = 0
  /\ server = infringements
  /\ history = <<>>
  /\ pendingPenalties = <<>>
  /\ isApplyingPenalty = FALSE
  /\ paginationPage = 1
  /\ paginationLimit = MaxRecords + 1
  /\ applyCalls = <<>>
  /\ loads = <<>>
  /\ dashInbox = <<>>
  /\ popupInbox = <<>>
  /\ toasts = {}
  /\ deleteCalls = <<>>
  /\ createCalls = <<>>
  /\ editCalls = <<>>
  /\ sessionActive = TRUE
  /\ hasActiveSession = "true"
  /\ loadError = NULL
  /\ showExpirySettings = FALSE
  /\ passwordDialogOpen = FALSE
  /\ passwordInput = ""
  /\ isSavingConfig = FALSE
  /\ configCalls = <<>>
  /\ serverConfig = ExpiryMinutes
  /\ currentView = "penalty-logging"
  /\ sessionCalls = <<>>
  /\ ShellNotStarted
  /\ WsConstructed
  /\ FormEmpty

\* one record of every disposition: the status label and the Penalties filter
StatusKinds ==
  [kart |-> {42}, desc |-> {"White Line Infringement"}, disp |-> Dispositions]

InitStatus ==
  /\ InitRender(StatusKinds, {1})

NextStatus ==
  \/ RenderTable
  \/ SetFilterType
  \/ RenderPlainTable
  \/ RenderPopup
  \/ filterTable

SpecStatus == InitStatus /\ [][NextStatus]_vars

\* warnings only, of both karts, of an accrual type and of another: counting and expiry
FlagKinds ==
  [kart |-> Karts, desc |-> {"White Line Infringement", "Track Limits"},
   disp |-> {<<"Warning", "No", NULL>>}]

InitFlag == InitRender(FlagKinds, 0..MaxRecords)

\* one kart, both accrual types, warnings and penalties: the accrual cycle
CycleKinds ==
  [kart |-> {42},
   desc |-> {"White Line Infringement", "Yellow Zone Infringement"},
   disp |-> {<<"Warning", "No", NULL>>, <<"Warning", "Yes", NULL>>,
             <<"5 Sec", "Yes", NULL>>, <<"5 Sec", "No", "Race Control Operator">>}]

InitCycle == InitRender(CycleKinds, 0..MaxRecords)

\* one kart, an accrual type and another type, warnings and pending penalties
AccrualKinds ==
  [kart |-> {42}, desc |-> {"White Line Infringement", "Track Limits"},
   disp |-> {<<"Warning", "No", NULL>>, <<"5 Sec", "Yes", NULL>>}]

InitAccrual == InitRender(AccrualKinds, 0..MaxRecords)

NextFlag ==
  \/ RenderTable
  \/ SetFilterType
  \/ RenderPopup
  \/ filterTable

SpecFlag == InitFlag /\ [][NextFlag]_vars

\* the accrual cycle is read off the unfiltered tables
NextCycle ==
  \/ RenderTable
  \/ RenderPopup

SpecCycle == InitCycle /\ [][NextCycle]_vars

SpecAccrual == InitAccrual /\ [][NextCycle]_vars

\* new Date() of a later rendering: a minute has passed, nothing else changed
MinutePasses ==
  /\ now < MaxTime
  /\ now' = now + 1
  /\ UNCHANGED <<sysVars, infringements, warningExpiryMinutes, filterType, dashRows,
                 plainRows, WARNING_EXPIRY_MINUTES, popupData, filterValue, tbody>>

\* the tables rendered again and again while the warnings age
NextExpiry ==
  \/ RenderTable
  \/ RenderPopup
  \/ MinutePasses

SpecExpiry == InitFlag /\ [][NextExpiry]_vars

\* ------------------------------------------------ the server and the clients
\* One dashboard and the popup window it opened, both connected to the server
\* over REST and a WebSocket; other operators' clients act on the same server.
MaxStored == 2      \* records the server holds
DefaultLimit == 1   \* the page size of the dashboard, 300 in the program
MaxInbox == 1       \* frames in flight per socket
MaxCalls == 2       \* handleApplyPenalty calls in flight
MaxLoads == 1       \* loadData calls, and popup refreshes, in flight
MaxEdits == 1   \* the edits the server stores in one run

PopupLimit == 1000

relevantTypes ==
  {"new_infringement", "update_infringement", "delete_infringement", "penalty_applied",
   "session_started", "session_loaded", "session_closed", "session_deleted",
   "session_imported"}

popupTypes ==
  {"new_infringement", "update_infringement", "delete_infringement", "penalty_applied"}

SessionTypes ==
  {"session_started", "session_loaded", "session_closed", "session_deleted",
   "session_imported"}

\* a frame is JSON text with a type, or text JSON.parse throws on
Frame(type) == [json |-> TRUE, type |-> type]

Malformed == [json |-> FALSE, type |-> NULL]

RemoveAt(s, k) == SubSeq(s, 1, k - 1) \o SubSeq(s, k + 1, Len(s))

\* GET /infringements/?page=&limit= : the page of the newest-first list
Page(list, page, limit) ==
  SubSeq(list, (page - 1) * limit + 1, Min(page * limit, Len(list)))

\* GET /penalties/pending
PendingOf(list) ==
  LET due(r) == /\ r.penalty_due = "Yes"
                /\ r.penalty_description \notin {NULL, "Warning", "No further action"}
      pendingList == SelectSeq(list, due)
  IN [k \in 1..Len(pendingList) |->
        [id |-> pendingList[k].id,
         kart_number |-> pendingList[k].kart_number,
         description |-> pendingList[k].description,
         penalty_description |-> pendingList[k].penalty_description,
         timestamp |-> pendingList[k].timestamp]]

\* the server pushes one frame to every connected socket
Broadcast(frame) ==
  /\ Len(dashInbox) < MaxInbox
  /\ Len(popupInbox) < MaxInbox
  /\ dashInbox' = Append(dashInbox, frame)
  /\ popupInbox' = Append(popupInbox, frame)

\* POST /penalties/apply_individual/{id}: only a pending penalty can be applied
CanApply(id) ==
  sessionActive /\ \E k \in 1..Len(server) : server[k].id = id /\ server[k].penalty_due = "Yes"

ApplyOnServer(id) ==
  /\ server' = [k \in 1..Len(server) |->
                  IF server[k].id = id
                  THEN [server[k] EXCEPT !.penalty_due = "No",
                                         !.penalty_taken = "Race Control Operator"]
                  ELSE server[k]]
  /\ history' = Append(history, [infringement_id |-> id, action |-> "penalty_applied"])
  /\ Broadcast(Frame("penalty_applied"))

\* the id the server gives the next record: ids are never used twice
NextId ==
  1 + Cardinality({k \in 1..Len(history) : history[k].action = "create"})

\* DELETE /infringements/{id}: the record is gone, the audit entry stays
CanDelete(id) == sessionActive /\ \E k \in 1..Len(server) : server[k].id = id

DeleteOnServer(id) ==
  LET others(r) == r.id # id
  IN /\ server' = SelectSeq(server, others)
     /\ history' = Append(history, [infringement_id |-> id, action |-> "delete"])
     /\ Broadcast(Frame("delete_infringement"))

\* the table of the dashboard as React renders it from the state
DashTable(list, ft, t, expiry) ==
  LET shown == filteredInfringements(list, ft, t, expiry)
  IN [k \in 1..Len(shown) |-> TableRow(shown[k], list, t, expiry)]

\* what another operator's client logs: a warning, or a penalty to be applied
SystemKinds ==
  [kart |-> {42}, desc |-> {"White Line Infringement"},
   disp |-> {<<"Warning", "No", NULL>>, <<"5 Sec", "Yes", NULL>>}]

renderVars == <<warningExpiryMinutes, filterType, plainRows, WARNING_EXPIRY_MINUTES,
                filterValue>>

\* POST /infringements/: the record is stored newest first; a minute passes
CreateOnServer(r) ==
  /\ server' = <<r>> \o server
  /\ history' = Append(history, [infringement_id |-> r.id, action |-> "create"])
  /\ now' = now + 1
  /\ Broadcast(Frame("new_infringement"))

\* POST /infringements/ from another operator's client
OtherOperatorCreates ==
  \E r \in RecordsAt(NextId, SystemKinds) :
    /\ sessionActive
    /\ NextId <= MaxStored
    /\ r.timestamp = now
    /\ CreateOnServer(r)
    /\ UNCHANGED <<toasts, callVars, sessionVars, asideVars, renderVars, infringements, dashRows, popupData, tbody, popupFetching,
                   pendingPenalties, isApplyingPenalty, paginationPage, paginationLimit,
                   applyCalls, loads>>

\* POST /penalties/apply_individual/{id} from another operator's client
OtherOperatorApplies ==
  \E k \in 1..Len(server) :
    /\ CanApply(server[k].id)
    /\ ApplyOnServer(server[k].id)
    /\ UNCHANGED <<toasts, callVars, sessionVars, asideVars, renderVars, now, infringements, dashRows, popupData, tbody,
                   popupFetching, pendingPenalties, isApplyingPenalty, paginationPage,
                   paginationLimit, applyCalls, loads>>

\* a session of another name is started, loaded, closed, deleted or imported
SessionBroadcast ==
  \E type \in SessionTypes :
    /\ Broadcast(Frame(type))
    /\ UNCHANGED <<toasts, callVars, sessionVars, asideVars, renderVars, now, infringements, dashRows, popupData, tbody,
                   popupFetching, server, history, pendingPenalties, isApplyingPenalty,
                   paginationPage, paginationLimit, applyCalls, loads>>

\* the greeting of the server, or text that is not JSON
OtherFrame ==
  \E frame \in {Frame("connected"), Malformed} :
    /\ Broadcast(frame)
    /\ UNCHANGED <<toasts, callVars, sessionVars, asideVars, renderVars, now, infringements, dashRows, popupData, tbody,
                   popupFetching, server, history, pendingPenalties, isApplyingPenalty,
                   paginationPage, paginationLimit, applyCalls, loads>>

\* ---- the dashboard: PendingPenalties, handleApplyPenalty, loadData
\* PendingPenalties: disabled={isProcessing || isWarningOnly}
\* variant: the button stays enabled while a penalty is being applied
ApplyButtonDisabledWarningOnly(penalty) ==
  penalty.penalty_description = "Warning"

ApplyButtonDisabled(penalty) ==
  isApplyingPenalty \/ penalty.penalty_description = "Warning"

\* the click on Apply Penalty, up to the POST being sent
handleApplyPenalty ==
  \E k \in 1..Len(pendingPenalties) :
    /\ ~ApplyButtonDisabled(pendingPenalties[k])
    /\ Len(applyCalls) < MaxCalls
    /\ isApplyingPenalty' = TRUE
    /\ applyCalls' = Append(applyCalls, [id |-> pendingPenalties[k].id, pc |-> "posting"])
    /\ UNCHANGED <<toasts, callVars, sessionVars, asideVars, renderVars, now, infringements, dashRows, popupData, tbody,
                   popupFetching, server, history, pendingPenalties, paginationPage,
                   paginationLimit, loads, dashInbox, popupInbox>>

\* the server handles the POST of a call: applies, or answers with an error status
applyIndividualPenalty ==
  \E c \in 1..Len(applyCalls) :
    /\ applyCalls[c].pc = "posting"
    /\ IF CanApply(applyCalls[c].id)
       THEN /\ ApplyOnServer(applyCalls[c].id)
            /\ applyCalls' = [applyCalls EXCEPT ![c].pc = "ok"]
       ELSE /\ applyCalls' = [applyCalls EXCEPT ![c].pc = "rejected"]
            /\ UNCHANGED <<server, history, dashInbox, popupInbox>>
    /\ UNCHANGED <<toasts, callVars, sessionVars, asideVars, renderVars, now, infringements, dashRows, popupData, tbody,
                   popupFetching, pendingPenalties, isApplyingPenalty, paginationPage,
                   paginationLimit, loads>>

\* the POST does not reach the server: request throws
ApplyRequestFails ==
  \E c \in 1..Len(applyCalls) :
    /\ applyCalls[c].pc = "posting"
    /\ applyCalls' = [applyCalls EXCEPT ![c].pc = "rejected"]
    /\ UNCHANGED <<toasts, callVars, sessionVars, asideVars, renderVars, now, infringements, dashRows, popupData, tbody,
                   popupFetching, server, history, pendingPenalties, isApplyingPenalty,
                   paginationPage, paginationLimit, loads, dashInbox, popupInbox>>

\* issuedAt: how many audit entries the server had when the call was made;
\* checked: checkActiveSession has answered that a session is active
LoadData(owner, page, limit) ==
  [owner |-> owner, page |-> page, limit |-> limit, items |-> <<>>, pending |-> <<>>,
   issuedAt |-> Len(history), checked |-> FALSE]

\* handleApplyPenalty after the awaited POST resolved: await loadData()
ApplyPenaltyResolved ==
  \E c \in 1..Len(applyCalls) :
    /\ applyCalls[c].pc = "ok"
    /\ Len(loads) < MaxLoads
    /\ loads' = Append(loads, LoadData(applyCalls[c].id, paginationPage, paginationLimit))
    /\ applyCalls' = [applyCalls EXCEPT ![c].pc = "loading"]
    /\ loadError' = NULL
    /\ UNCHANGED <<toasts, callVars, sessionActive, hasActiveSession, asideVars, renderVars, now, infringements, dashRows, popupData, tbody,
                   popupFetching, server, history, pendingPenalties, isApplyingPenalty,
                   paginationPage, paginationLimit, dashInbox, popupInbox>>

\* handleApplyPenalty after the awaited POST threw: catch, finally
ApplyPenaltyRejected ==
  \E c \in 1..Len(applyCalls) :
    /\ applyCalls[c].pc = "rejected"
    /\ toasts' = {"Error Applying Penalty"}
    /\ isApplyingPenalty' = FALSE
    /\ applyCalls' = RemoveAt(applyCalls, c)
    /\ UNCHANGED <<callVars, sessionVars, asideVars, renderVars, now, infringements, dashRows, popupData, tbody,
                   popupFetching, server, history, pendingPenalties, paginationPage,
                   paginationLimit, loads, dashInbox, popupInbox>>

\* loadData: the server answers fetchInfringements(paginationPage, paginationLimit)
fetchInfringements ==
  \E l \in 1..Len(loads) :
    /\ loads[l].checked
    /\ sessionActive
    /\ loads[l].items = <<>>
    /\ loads' = [loads EXCEPT ![l].items = <<Page(server, loads[l].page, loads[l].limit)>>]
    /\ UNCHANGED <<toasts, callVars, sessionVars, asideVars, renderVars, now, infringements, dashRows, popupData, tbody,
                   popupFetching, server, history, pendingPenalties, isApplyingPenalty,
                   paginationPage, paginationLimit, applyCalls, dashInbox,
                   popupInbox>>

\* loadData: the server answers fetchPendingPenalties()
fetchPendingPenalties ==
  \E l \in 1..Len(loads) :
    /\ loads[l].checked
    /\ sessionActive
    /\ loads[l].pending = <<>>
    /\ loads' = [loads EXCEPT ![l].pending = <<PendingOf(server)>>]
    /\ UNCHANGED <<toasts, callVars, sessionVars, asideVars, renderVars, now, infringements, dashRows, popupData, tbody,
                   popupFetching, server, history, pendingPenalties, isApplyingPenalty,
                   paginationPage, paginationLimit, applyCalls, dashInbox,
                   popupInbox>>

\* the owner of a loadData call: 0 the WebSocket handler, an id the
\* handleApplyPenalty call for that id, NewOwner a handleNewInfringement call
NewOwner == 0 - 1

\* the owner of a loadData() call made by the effect on [currentView, loadData]
EffectOwner == 0 - 2

\* handleApplyPenalty and the effect call loadData(), the others loadData(false)
withSpinner(load) == load.owner > 0 \/ load.owner = EffectOwner

\* loadData has returned to the call that awaited it, if one did.
\* handleApplyPenalty: the success toast, the message to the popup window, finally;
\* handleNewInfringement: goes on to await fetchPendingPenalties()
LoadDataReturns(l, shown) ==
  /\ loads' = RemoveAt(loads, l)
  /\ IF loads[l].owner \in {0, EffectOwner}
     THEN /\ toasts' = IF shown = {} THEN toasts ELSE shown
          /\ UNCHANGED <<applyCalls, isApplyingPenalty, popupFetching, createCalls>>
     ELSE IF loads[l].owner = NewOwner
     THEN LET c == CHOOSE c \in 1..Len(createCalls) : createCalls[c].pc = "loading"
          IN /\ toasts' = IF shown = {} THEN toasts ELSE shown
             /\ createCalls' = [createCalls EXCEPT ![c].pc = "pending"]
             /\ UNCHANGED <<applyCalls, isApplyingPenalty, popupFetching>>
     ELSE LET c == CHOOSE c \in 1..Len(applyCalls) :
                     applyCalls[c].id = loads[l].owner /\ applyCalls[c].pc = "loading"
          IN /\ popupFetching < MaxLoads
             /\ toasts' = shown \cup {"Penalty applied successfully"}
             /\ popupFetching' = popupFetching + 1
             /\ isApplyingPenalty' = FALSE
             /\ applyCalls' = RemoveAt(applyCalls, c)
             /\ UNCHANGED createCalls

\* loadData: hasActive is false, so both lists are cleared and loadData returns
NoActiveSession(l) ==
  /\ hasActiveSession' = "false"
  /\ infringements' = <<>>
  /\ pendingPenalties' = <<>>
  /\ dashRows' = DashTable(<<>>, filterType, now, warningExpiryMinutes)
  /\ loadError' = IF withSpinner(loads[l]) THEN "No active session" ELSE loadError
  /\ LoadDataReturns(l, {})
  /\ UNCHANGED <<deleteCalls, editCalls, sessionActive, asideVars, renderVars, now, popupData, tbody,
                 server, history, paginationPage, paginationLimit, dashInbox, popupInbox>>

\* loadData: the server answers the listSessions() of checkActiveSession
checkActiveSession ==
  \E l \in 1..Len(loads) :
    /\ ~loads[l].checked
    /\ IF sessionActive
       THEN /\ hasActiveSession' = "true"
            /\ loads' = [loads EXCEPT ![l].checked = TRUE]
            /\ UNCHANGED <<toasts, callVars, sessionActive, loadError, asideVars, renderVars, now,
                           infringements, dashRows, popupData, tbody, popupFetching,
                           server, history, pendingPenalties, isApplyingPenalty,
                           paginationPage, paginationLimit, applyCalls, dashInbox,
                           popupInbox>>
       ELSE NoActiveSession(l)

\* loadData: the listSessions() of checkActiveSession throws; the catch logs it
\* to the console and answers hasActive: false
checkActiveSessionFails ==
  \E l \in 1..Len(loads) :
    /\ ~loads[l].checked
    /\ NoActiveSession(l)

\* loadData: both requests resolved
LoadDataResolved ==
  \E l \in 1..Len(loads) :
    /\ loads[l].items # <<>>
    /\ loads[l].pending # <<>>
    /\ infringements' = loads[l].items[1]
    /\ pendingPenalties' = loads[l].pending[1]
    /\ dashRows' = DashTable(loads[l].items[1], filterType, now, warningExpiryMinutes)
    /\ loadError' = NULL
    /\ LoadDataReturns(l, {})
    /\ UNCHANGED <<deleteCalls, editCalls, sessionActive, hasActiveSession, asideVars, renderVars, now,
                   popupData, tbody, server, history, paginationPage, paginationLimit,
                   dashInbox, popupInbox>>

\* loadData: one of the two requests threw
LoadDataFails ==
  \E l \in 1..Len(loads) :
    /\ loads[l].checked
    /\ loadError' = "Failed to load data from server"
    /\ LoadDataReturns(l, {"Error Loading Data"})
    /\ UNCHANGED <<deleteCalls, editCalls, sessionActive, hasActiveSession, asideVars, renderVars, now,
                   infringements, dashRows, popupData, tbody, server, history,
                   pendingPenalties, paginationPage, paginationLimit, dashInbox,
                   popupInbox>>

\* loadData: the session was closed after the check, and the server answers one
\* of the two requests with the error of the missing table
LoadDataFailsNoSession ==
  \E l \in 1..Len(loads) :
    /\ loads[l].checked
    /\ ~sessionActive
    /\ loads[l].items = <<>> \/ loads[l].pending = <<>>
    /\ loadError' = "relation does not exist"
    /\ hasActiveSession' = "false"
    /\ LoadDataReturns(l, {"Database Error"})
    /\ UNCHANGED <<deleteCalls, editCalls, sessionActive, asideVars, renderVars, now, infringements,
                   dashRows, popupData, tbody, server, history, pendingPenalties,
                   paginationPage, paginationLimit, dashInbox, popupInbox>>

\* ---- the dashboard: handleDeleteInfringement
\* a handler that leaves the lists as they were
withoutIdKeepsAll(list, id) == list

\* prev.filter((inf) => inf.id !== id), for either list
withoutId(list, id) ==
  LET others(r) == r.id # id
  IN SelectSeq(list, others)

\* the trash button of a row, confirmed, up to the DELETE being sent
handleDeleteInfringement ==
  \E k \in 1..Len(infringements) :
    /\ Len(deleteCalls) < MaxCalls
    /\ deleteCalls' = Append(deleteCalls, [id |-> infringements[k].id, pc |-> "posting"])
    /\ UNCHANGED <<toasts, createCalls, editCalls, sessionVars, asideVars, renderVars, now, infringements, dashRows, popupData, tbody,
                   popupFetching, server, history, pendingPenalties, isApplyingPenalty,
                   paginationPage, paginationLimit, applyCalls, loads, dashInbox,
                   popupInbox>>

\* the server handles the DELETE of a call: deletes, or answers 404
deleteInfringement ==
  \E c \in 1..Len(deleteCalls) :
    /\ deleteCalls[c].pc = "posting"
    /\ IF CanDelete(deleteCalls[c].id)
       THEN /\ DeleteOnServer(deleteCalls[c].id)
            /\ deleteCalls' = [deleteCalls EXCEPT ![c].pc = "ok"]
       ELSE /\ deleteCalls' = [deleteCalls EXCEPT ![c].pc = "rejected"]
            /\ UNCHANGED <<server, history, dashInbox, popupInbox>>
    /\ UNCHANGED <<toasts, createCalls, editCalls, sessionVars, asideVars, renderVars, now, infringements, dashRows, popupData, tbody,
                   popupFetching, pendingPenalties, isApplyingPenalty, paginationPage,
                   paginationLimit, applyCalls, loads>>

\* the DELETE does not reach the server: request throws
DeleteRequestFails ==
  \E c \in 1..Len(deleteCalls) :
    /\ deleteCalls[c].pc = "posting"
    /\ deleteCalls' = [deleteCalls EXCEPT ![c].pc = "rejected"]
    /\ UNCHANGED <<toasts, createCalls, editCalls, sessionVars, asideVars, renderVars, now, infringements, dashRows, popupData, tbody,
                   popupFetching, server, history, pendingPenalties, isApplyingPenalty,
                   paginationPage, paginationLimit, applyCalls, loads, dashInbox,
                   popupInbox>>

\* handleDeleteInfringement after the awaited DELETE resolved: both lists are
\* filtered, the success toast, the message to the popup window
DeleteResolved ==
  \E c \in 1..Len(deleteCalls) :
    /\ deleteCalls[c].pc = "ok"
    /\ popupFetching < MaxLoads
    /\ infringements' = withoutId(infringements, deleteCalls[c].id)
    /\ pendingPenalties' = withoutId(pendingPenalties, deleteCalls[c].id)
    /\ dashRows' = DashTable(withoutId(infringements, deleteCalls[c].id), filterType, now,
                             warningExpiryMinutes)
    /\ toasts' = {"Infringement deleted successfully"}
    /\ popupFetching' = popupFetching + 1
    /\ deleteCalls' = RemoveAt(deleteCalls, c)
    /\ UNCHANGED <<createCalls, editCalls, sessionVars, asideVars, renderVars, now, popupData, tbody, server, history, isApplyingPenalty,
                   paginationPage, paginationLimit, applyCalls, loads, dashInbox,
                   popupInbox>>

\* a variant that sends the DELETE again after the error toast
DeleteRejectedRetries ==
  \E c \in 1..Len(deleteCalls) :
    /\ deleteCalls[c].pc = "rejected"
    /\ toasts' = {"Error Deleting Infringement"}
    /\ deleteCalls' = [deleteCalls EXCEPT ![c].pc = "posting"]
    /\ UNCHANGED <<createCalls, editCalls, sessionVars, asideVars, renderVars, now,
                   infringements, dashRows, popupData, tbody, popupFetching, server,
                   history, pendingPenalties, isApplyingPenalty, paginationPage,
                   paginationLimit, applyCalls, loads, dashInbox, popupInbox>>

\* handleDeleteInfringement after the awaited DELETE threw: catch
DeleteRejected ==
  \E c \in 1..Len(deleteCalls) :
    /\ deleteCalls[c].pc = "rejected"
    /\ toasts' = {"Error Deleting Infringement"}
    /\ deleteCalls' = RemoveAt(deleteCalls, c)
    /\ UNCHANGED <<createCalls, editCalls, sessionVars, asideVars, renderVars, now, infringements, dashRows, popupData, tbody,
                   popupFetching, server, history, pendingPenalties, isApplyingPenalty,
                   paginationPage, paginationLimit, applyCalls, loads, dashInbox,
                   popupInbox>>

\* DELETE /infringements/{id} from another operator's client
OtherOperatorDeletes ==
  \E k \in 1..Len(server) :
    /\ sessionActive
    /\ DeleteOnServer(server[k].id)
    /\ UNCHANGED <<toasts, callVars, sessionVars, asideVars, renderVars, now, infringements, dashRows, popupData,
                   tbody, popupFetching, pendingPenalties, isApplyingPenalty,
                   paginationPage, paginationLimit, applyCalls, loads>>

\* ---- the popup: window.handleDelete, and the opener's message handler
\* the delete button of a popup row, confirmed, up to the DELETE being sent;
\* sent counts the DELETE requests that follow from this confirmation
popupHandleDelete ==
  \E k \in 1..Len(tbody) :
    /\ Len(deleteCalls) < MaxCalls
    /\ deleteCalls' = Append(deleteCalls,
                             [id |-> tbody[k].id, pc |-> "popup-delete", sent |-> 1])
    /\ UNCHANGED <<toasts, createCalls, editCalls, sessionVars, asideVars, renderVars, now, infringements, dashRows, popupData, tbody,
                   popupFetching, server, history, pendingPenalties, isApplyingPenalty,
                   paginationPage, paginationLimit, applyCalls, loads, dashInbox,
                   popupInbox>>

\* the popup's fetch with method DELETE: the server deletes, or the response is
\* not ok or fetch throws, and the popup alerts and is done
popupDelete ==
  \E c \in 1..Len(deleteCalls) :
    /\ deleteCalls[c].pc = "popup-delete"
    /\ \/ /\ CanDelete(deleteCalls[c].id)
          /\ DeleteOnServer(deleteCalls[c].id)
          /\ deleteCalls' = [deleteCalls EXCEPT ![c].pc = "popup-ok"]
       \/ /\ deleteCalls' = RemoveAt(deleteCalls, c)
          /\ UNCHANGED <<server, history, dashInbox, popupInbox>>
    /\ UNCHANGED <<toasts, createCalls, editCalls, sessionVars, asideVars, renderVars, now, infringements, dashRows, popupData, tbody,
                   popupFetching, pendingPenalties, isApplyingPenalty, paginationPage,
                   paginationLimit, applyCalls, loads>>

\* window.handleDelete after response.ok: the awaited refreshTable, which renders
\* the fetched list or its error row, then postMessage to the opener
PopupDeleteResolved ==
  \E c \in 1..Len(deleteCalls) :
    /\ deleteCalls[c].pc = "popup-ok"
    /\ \/ /\ sessionActive
          /\ popupData' = Page(server, 1, PopupLimit)
          /\ tbody' = PopupRows(Page(server, 1, PopupLimit), filterValue, now,
                                WARNING_EXPIRY_MINUTES)
       \/ /\ tbody' = <<>>
          /\ UNCHANGED popupData
    /\ deleteCalls' = [deleteCalls EXCEPT ![c].pc = "message"]
    /\ UNCHANGED <<toasts, createCalls, editCalls, sessionVars, asideVars, renderVars, now, infringements, dashRows,
                   popupFetching, server, history, pendingPenalties, isApplyingPenalty,
                   paginationPage, paginationLimit, applyCalls, loads, dashInbox,
                   popupInbox>>

\* App's message listener receives { type: 'deleteInfringement', id } and calls
\* deleteInfringement(id). The record is gone by then, so of the handler only the
\* request and the catch, which is the catch of handleDeleteInfringement, can run
handleMessage ==
  \E c \in 1..Len(deleteCalls) :
    /\ deleteCalls[c].pc = "message"
    /\ deleteCalls' = [deleteCalls EXCEPT ![c].pc = "posting", ![c].sent = @ + 1]
    /\ UNCHANGED <<toasts, createCalls, editCalls, sessionVars, asideVars, renderVars, now, infringements, dashRows, popupData, tbody,
                   popupFetching, server, history, pendingPenalties, isApplyingPenalty,
                   paginationPage, paginationLimit, applyCalls, loads, dashInbox,
                   popupInbox>>

\* ---- the dashboard: pagination
\* handlePageSizeChange; loadData is a new function after the render, so the
\* effect on [currentView, loadData] calls loadData()
handlePageSizeChange ==
  \E newLimit \in {DefaultLimit, MaxStored} \ {paginationLimit} :
    /\ Len(loads) < MaxLoads
    /\ paginationLimit' = newLimit
    /\ paginationPage' = 1
    /\ loadError' = NULL
    /\ loads' = Append(loads, LoadData(EffectOwner, 1, newLimit))
    /\ UNCHANGED <<toasts, callVars, sessionActive, hasActiveSession, asideVars, renderVars, now,
                   infringements, dashRows, popupData, tbody, popupFetching, server,
                   history, pendingPenalties, isApplyingPenalty, applyCalls, dashInbox,
                   popupInbox>>

\* ---- the dashboard: EditInfringementDialog, handleSaveEdit
\* PUT /infringements/{id}: the fields of the payload are written to the record,
\* no other record is recomputed
CanUpdate(id) == sessionActive /\ \E k \in 1..Len(server) : server[k].id = id

UpdatedOnServer(id, payload) ==
  LET k == CHOOSE k \in 1..Len(server) : server[k].id = id
  IN [server[k] EXCEPT !.kart_number = payload.kart_number]

UpdateOnServer(id, payload) ==
  /\ server' = [k \in 1..Len(server) |->
                  IF server[k].id = id THEN UpdatedOnServer(id, payload) ELSE server[k]]
  /\ history' = Append(history, [infringement_id |-> id, action |-> "update"])
  /\ Broadcast(Frame("update_infringement"))

\* a variant that puts the updated record first
mapUpdatedToFront(list, updated) ==
  LET others(r) == r.id # updated.id
  IN <<updated>> \o SelectSeq(list, others)

\* prev.map((inf) => (inf.id === updated.id ? updated : inf))
mapUpdated(list, updated) ==
  [k \in 1..Len(list) |-> IF list[k].id = updated.id THEN updated ELSE list[k]]

\* Save Changes in the dialog opened from a row (disabled while a save is
\* awaited), up to the PUT being sent
handleSaveEdit ==
  \E k \in 1..Len(infringements), kart \in Karts :
    /\ editCalls = <<>>
    /\ Cardinality({j \in 1..Len(history) : history[j].action = "update"}) < MaxEdits
    /\ editCalls' = <<[id |-> infringements[k].id, payload |-> [kart_number |-> kart],
                       pc |-> "posting", updated |-> <<>>]>>
    /\ UNCHANGED <<toasts, deleteCalls, createCalls, sessionVars, asideVars, renderVars, now,
                   infringements, dashRows, popupData, tbody, popupFetching, server,
                   history, pendingPenalties, isApplyingPenalty, paginationPage,
                   paginationLimit, applyCalls, loads, dashInbox, popupInbox>>

\* the server handles the PUT of the call: answers with the updated record, or 404
updateInfringement ==
  \E c \in 1..Len(editCalls) :
    /\ editCalls[c].pc = "posting"
    /\ IF CanUpdate(editCalls[c].id)
       THEN /\ UpdateOnServer(editCalls[c].id, editCalls[c].payload)
            /\ editCalls' = [editCalls EXCEPT
                                ![c].pc = "ok",
                                ![c].updated = <<UpdatedOnServer(editCalls[c].id,
                                                                 editCalls[c].payload)>>]
       ELSE /\ editCalls' = [editCalls EXCEPT ![c].pc = "rejected"]
            /\ UNCHANGED <<server, history, dashInbox, popupInbox>>
    /\ UNCHANGED <<toasts, deleteCalls, createCalls, sessionVars, asideVars, renderVars, now,
                   infringements, dashRows, popupData, tbody, popupFetching,
                   pendingPenalties, isApplyingPenalty, paginationPage, paginationLimit,
                   applyCalls, loads>>

\* the PUT does not reach the server: request throws
EditRequestFails ==
  \E c \in 1..Len(editCalls) :
    /\ editCalls[c].pc = "posting"
    /\ editCalls' = [editCalls EXCEPT ![c].pc = "rejected"]
    /\ UNCHANGED <<toasts, deleteCalls, createCalls, sessionVars, asideVars, renderVars, now,
                   infringements, dashRows, popupData, tbody, popupFetching, server,
                   history, pendingPenalties, isApplyingPenalty, paginationPage,
                   paginationLimit, applyCalls, loads, dashInbox, popupInbox>>

\* handleSaveEdit after the awaited PUT resolved: the record is swapped in the
\* list and fetchPendingPenalties() is sent
EditResolved ==
  \E c \in 1..Len(editCalls) :
    /\ editCalls[c].pc = "ok"
    /\ infringements' = mapUpdated(infringements, editCalls[c].updated[1])
    /\ dashRows' = DashTable(mapUpdated(infringements, editCalls[c].updated[1]),
                             filterType, now, warningExpiryMinutes)
    /\ editCalls' = [editCalls EXCEPT ![c].pc = "pending"]
    /\ UNCHANGED <<toasts, deleteCalls, createCalls, sessionVars, asideVars, renderVars, now,
                   popupData, tbody, popupFetching, server, history, pendingPenalties,
                   isApplyingPenalty, paginationPage, paginationLimit, applyCalls, loads,
                   dashInbox, popupInbox>>

\* handleSaveEdit after the awaited PUT threw: catch, finally
EditRejected ==
  \E c \in 1..Len(editCalls) :
    /\ editCalls[c].pc = "rejected"
    /\ toasts' = {"Error Updating Infringement"}
    /\ editCalls' = RemoveAt(editCalls, c)
    /\ UNCHANGED <<deleteCalls, createCalls, sessionVars, asideVars, renderVars, now, infringements,
                   dashRows, popupData, tbody, popupFetching, server, history,
                   pendingPenalties, isApplyingPenalty, paginationPage, paginationLimit,
                   applyCalls, loads, dashInbox, popupInbox>>

\* handleSaveEdit: fetchPendingPenalties() is answered, the success toast, the
\* message to the popup window, finally
EditPendingResolved ==
  \E c \in 1..Len(editCalls) :
    /\ editCalls[c].pc = "pending"
    /\ sessionActive
    /\ popupFetching < MaxLoads
    /\ pendingPenalties' = PendingOf(server)
    /\ toasts' = {"Infringement updated successfully"}
    /\ popupFetching' = popupFetching + 1
    /\ editCalls' = RemoveAt(editCalls, c)
    /\ UNCHANGED <<deleteCalls, createCalls, sessionVars, asideVars, renderVars, now, infringements,
                   dashRows, popupData, tbody, server, history, isApplyingPenalty,
                   paginationPage, paginationLimit, applyCalls, loads, dashInbox,
                   popupInbox>>

\* handleSaveEdit: fetchPendingPenalties() threw: catch, finally
EditPendingRejected ==
  \E c \in 1..Len(editCalls) :
    /\ editCalls[c].pc = "pending"
    /\ toasts' = {"Error Updating Infringement"}
    /\ editCalls' = RemoveAt(editCalls, c)
    /\ UNCHANGED <<deleteCalls, createCalls, sessionVars, asideVars, renderVars, now, infringements,
                   dashRows, popupData, tbody, popupFetching, server, history,
                   pendingPenalties, isApplyingPenalty, paginationPage, paginationLimit,
                   applyCalls, loads, dashInbox, popupInbox>>

\* ---- the dashboard: the expiry settings and their password
\* the string handlePasswordSubmit compares with
Password == "kart123"

\* what the operator types into the password field
PasswordInputs == {"", "kart123", "kart12", "KART123"}

\* what the operator types into the Minutes field; Number('') is 0
MinutesInputs == {0, 1, ExpiryMinutes}

dashVars == <<now, infringements, dashRows, popupData, tbody, popupFetching, server,
              history, pendingPenalties, isApplyingPenalty, paginationPage,
              paginationLimit, applyCalls, loads, dashInbox, popupInbox>>

\* the Expiry switch: onCheckedChange(!showExpirySettings)
handleToggleExpirySettings ==
  /\ IF ~showExpirySettings
     THEN /\ passwordDialogOpen' = TRUE
          /\ UNCHANGED showExpirySettings
     ELSE /\ showExpirySettings' = FALSE
          /\ UNCHANGED passwordDialogOpen
  /\ UNCHANGED <<toasts, callVars, sessionVars, managerVars, deskVars, renderVars, dashVars,
                 passwordInput, isSavingConfig, configCalls, serverConfig>>

\* onChange of the password field
setPasswordInput ==
  \E value \in PasswordInputs \ {passwordInput} :
    /\ passwordDialogOpen
    /\ passwordInput' = value
    /\ UNCHANGED <<toasts, callVars, sessionVars, managerVars, deskVars, renderVars, dashVars,
                   showExpirySettings, passwordDialogOpen, isSavingConfig, configCalls,
                   serverConfig>>

\* a variant that lets every input through
handlePasswordSubmitAnyInput ==
  /\ passwordDialogOpen
  /\ passwordInput # ""
  /\ showExpirySettings' = TRUE
  /\ passwordDialogOpen' = FALSE
  /\ passwordInput' = ""
  /\ UNCHANGED <<toasts, callVars, sessionVars, managerVars, deskVars, renderVars, dashVars,
                 isSavingConfig, configCalls, serverConfig>>

\* Submit, or Enter in the field; both need a non-empty input
handlePasswordSubmit ==
  /\ passwordDialogOpen
  /\ passwordInput # ""
  /\ IF passwordInput = Password
     THEN /\ showExpirySettings' = TRUE
          /\ passwordDialogOpen' = FALSE
          /\ passwordInput' = ""
          /\ UNCHANGED toasts
     ELSE /\ toasts' = {"Incorrect Password"}
          /\ passwordInput' = ""
          /\ UNCHANGED <<showExpirySettings, passwordDialogOpen>>
  /\ UNCHANGED <<callVars, sessionVars, managerVars, deskVars, renderVars, dashVars, isSavingConfig,
                 configCalls, serverConfig>>

\* Cancel in the dialog
PasswordDialogCancel ==
  /\ passwordDialogOpen
  /\ passwordDialogOpen' = FALSE
  /\ passwordInput' = ""
  /\ UNCHANGED <<toasts, callVars, sessionVars, managerVars, deskVars, renderVars, dashVars,
                 showExpirySettings, isSavingConfig, configCalls, serverConfig>>

\* the dialog is closed with Escape or a click outside: onOpenChange(false)
PasswordDialogDismiss ==
  /\ passwordDialogOpen
  /\ passwordDialogOpen' = FALSE
  /\ UNCHANGED <<toasts, callVars, sessionVars, managerVars, deskVars, renderVars, dashVars,
                 showExpirySettings, passwordInput, isSavingConfig, configCalls,
                 serverConfig>>

\* onChange of the Minutes field, rendered while showExpirySettings; the table
\* is rendered with the new threshold
setWarningExpiryMinutes ==
  \E value \in MinutesInputs \ {warningExpiryMinutes} :
    /\ showExpirySettings
    /\ warningExpiryMinutes' = value
    /\ dashRows' = DashTable(infringements, filterType, now, value)
    /\ UNCHANGED <<toasts, callVars, sessionVars, asideVars, filterType, plainRows,
                   WARNING_EXPIRY_MINUTES, filterValue, now, infringements, popupData,
                   tbody, popupFetching, server, history, pendingPenalties,
                   isApplyingPenalty, paginationPage, paginationLimit, applyCalls, loads,
                   dashInbox, popupInbox>>

\* Save next to the Minutes field (disabled while isSavingConfig), up to the
\* PUT being sent
handleSaveExpiryMinutes ==
  /\ showExpirySettings
  /\ ~isSavingConfig
  /\ isSavingConfig' = TRUE
  /\ configCalls' = Append(configCalls, [value |-> warningExpiryMinutes, pc |-> "posting"])
  /\ UNCHANGED <<toasts, callVars, sessionVars, managerVars, deskVars, renderVars, dashVars,
                 showExpirySettings, passwordDialogOpen, passwordInput, serverConfig>>

\* PUT /api/config: the server stores a threshold of at least one minute
updateConfig ==
  \E c \in 1..Len(configCalls) :
    /\ configCalls[c].pc = "posting"
    /\ IF configCalls[c].value >= 1
       THEN /\ serverConfig' = configCalls[c].value
            /\ configCalls' = [configCalls EXCEPT ![c].pc = "ok"]
       ELSE /\ configCalls' = [configCalls EXCEPT ![c].pc = "rejected"]
            /\ UNCHANGED serverConfig
    /\ UNCHANGED <<toasts, callVars, sessionVars, managerVars, deskVars, renderVars, dashVars,
                   showExpirySettings, passwordDialogOpen, passwordInput, isSavingConfig>>

\* the PUT does not reach the server: request throws
ConfigRequestFails ==
  \E c \in 1..Len(configCalls) :
    /\ configCalls[c].pc = "posting"
    /\ configCalls' = [configCalls EXCEPT ![c].pc = "rejected"]
    /\ UNCHANGED <<toasts, callVars, sessionVars, managerVars, deskVars, renderVars, dashVars,
                   showExpirySettings, passwordDialogOpen, passwordInput, isSavingConfig,
                   serverConfig>>

\* handleSaveExpiryMinutes after the awaited PUT resolved: toast, finally
ConfigResolved ==
  \E c \in 1..Len(configCalls) :
    /\ configCalls[c].pc = "ok"
    /\ toasts' = {"Warning expiry minutes updated successfully"}
    /\ isSavingConfig' = FALSE
    /\ configCalls' = RemoveAt(configCalls, c)
    /\ UNCHANGED <<callVars, sessionVars, managerVars, deskVars, renderVars, dashVars,
                   showExpirySettings, passwordDialogOpen, passwordInput, serverConfig>>

\* handleSaveExpiryMinutes after the awaited PUT threw: catch, finally
ConfigRejected ==
  \E c \in 1..Len(configCalls) :
    /\ configCalls[c].pc = "rejected"
    /\ toasts' = {"Error Updating Config"}
    /\ isSavingConfig' = FALSE
    /\ configCalls' = RemoveAt(configCalls, c)
    /\ UNCHANGED <<callVars, sessionVars, managerVars, deskVars, renderVars, dashVars,
                   showExpirySettings, passwordDialogOpen, passwordInput, serverConfig>>

\* ---- the session manager
SessionRequests == {"start", "load", "delete", "import"}

\* the frame the server pushes after a request of the kind
SessionFrame(kind) ==
  Frame(CASE kind = "start" -> "session_started"
          [] kind = "load" -> "session_loaded"
          [] kind = "delete" -> "session_deleted"
          [] kind = "import" -> "session_imported")

SessionFailureToast(kind) ==
  CASE kind = "start" -> "Failed to Create Session"
    [] kind = "load" -> "Failed to Load Session"
    [] kind = "delete" -> "Failed to Delete Session"
    [] kind = "import" -> "Failed to Import Session"

\* handleImport reports with alert(), not with a toast
SessionSuccessToast(kind) ==
  CASE kind = "start" -> {"Session created successfully"}
    [] kind = "load" -> {"Session loaded successfully"}
    [] kind = "import" -> toasts

\* Back to Sessions in the header of the dashboard
handleBackToSessions ==
  /\ currentView = "penalty-logging"
  /\ currentView' = "sessions"
  /\ UNCHANGED <<toasts, callVars, sessionVars, settingsVars, deskVars, renderVars, dashVars,
                 sessionCalls>>

\* a handler of the manager up to its request being sent; the button of a kind
\* is disabled while a request of that kind is awaited
ManagerSubmits(kind) ==
  /\ currentView = "sessions"
  /\ \A c \in 1..Len(sessionCalls) : sessionCalls[c].kind # kind
  /\ sessionCalls' = Append(sessionCalls, [kind |-> kind, pc |-> "posting"])
  /\ UNCHANGED <<toasts, callVars, sessionVars, settingsVars, deskVars, renderVars, dashVars,
                 currentView>>

handleCreateSession == ManagerSubmits("start")

handleLoadSession == ManagerSubmits("load")

handleDeleteConfirm == ManagerSubmits("delete")

handleImport == ManagerSubmits("import")

\* POST /session/start|load|delete|import: the server refuses the request (a
\* duplicate or unknown name, a file it cannot read), or carries it out: a
\* started or imported session is active and has no record yet, a loaded
\* session is active with its records, a deleted session is gone, active or not
sessionRequest ==
  \E c \in 1..Len(sessionCalls), accepted \in BOOLEAN, own \in BOOLEAN :
    /\ sessionCalls[c].pc = "posting"
    /\ IF accepted
       THEN /\ sessionCalls' = [sessionCalls EXCEPT ![c].pc = "ok"]
            /\ Broadcast(SessionFrame(sessionCalls[c].kind))
            /\ CASE sessionCalls[c].kind = "load" ->
                      /\ own
                      /\ sessionActive' = TRUE
                      /\ UNCHANGED <<server, history>>
                 [] sessionCalls[c].kind \in {"start", "import"} ->
                      /\ own
                      /\ sessionActive' = TRUE
                      /\ server' = <<>>
                      /\ history' = <<>>
                 [] sessionCalls[c].kind = "delete" ->
                      IF own
                      THEN /\ sessionActive' = FALSE
                           /\ server' = <<>>
                           /\ history' = <<>>
                      ELSE UNCHANGED <<sessionActive, server, history>>
       ELSE /\ own
            /\ sessionCalls' = [sessionCalls EXCEPT ![c].pc = "rejected"]
            /\ UNCHANGED <<sessionActive, server, history, dashInbox, popupInbox>>
    /\ UNCHANGED <<toasts, callVars, hasActiveSession, loadError, settingsVars, deskVars, renderVars,
                   now, infringements, dashRows, popupData, tbody, popupFetching,
                   pendingPenalties, isApplyingPenalty, paginationPage, paginationLimit,
                   applyCalls, loads, currentView>>

\* the request does not reach the server: request throws
SessionRequestFails ==
  \E c \in 1..Len(sessionCalls) :
    /\ sessionCalls[c].pc = "posting"
    /\ sessionCalls' = [sessionCalls EXCEPT ![c].pc = "rejected"]
    /\ UNCHANGED <<toasts, callVars, sessionVars, settingsVars, deskVars, renderVars, dashVars,
                   currentView>>

\* a handler of the manager after its request threw: catch, finally
ManagerRejected ==
  \E c \in 1..Len(sessionCalls) :
    /\ sessionCalls[c].pc = "rejected"
    /\ toasts' = {SessionFailureToast(sessionCalls[c].kind)}
    /\ sessionCalls' = RemoveAt(sessionCalls, c)
    /\ UNCHANGED <<callVars, sessionVars, settingsVars, deskVars, renderVars, dashVars, currentView>>

\* a handler of the manager after its request resolved and its loadSessions()
\* returned, answered or not: onSessionChange is loadData; after start, load and
\* import handleSessionCreatedOrLoaded shows the dashboard and calls loadData,
\* and so does the effect on [currentView, loadData]; the success toast.
\* The handler starts up to three loadData calls at once, whatever MaxLoads is
ManagerResolved ==
  \E c \in 1..Len(sessionCalls) :
    LET load == LoadData(EffectOwner, paginationPage, paginationLimit)
    IN /\ sessionCalls[c].pc = "ok"
       /\ sessionCalls' = RemoveAt(sessionCalls, c)
       /\ loadError' = NULL
       /\ IF sessionCalls[c].kind = "delete"
          THEN /\ Len(loads) < MaxLoads
               /\ loads' = Append(loads, load)
               /\ UNCHANGED <<currentView, toasts>>
          ELSE /\ Len(loads) < MaxLoads
               /\ loads' = loads \o (IF currentView = "sessions"
                                      THEN <<load, load, load>> ELSE <<load, load>>)
               /\ currentView' = "penalty-logging"
               /\ toasts' = SessionSuccessToast(sessionCalls[c].kind)
       /\ UNCHANGED <<callVars, sessionActive, hasActiveSession, settingsVars, deskVars, renderVars,
                      now, infringements, dashRows, popupData, tbody, popupFetching, server,
                      history, pendingPenalties, isApplyingPenalty, paginationPage,
                      paginationLimit, applyCalls, dashInbox, popupInbox>>

\* ---- the server: the active session
\* POST /session/close: the session is deactivated, its data retained
SessionCloses ==
  /\ sessionActive
  /\ sessionActive' = FALSE
  /\ Broadcast(Frame("session_closed"))
  /\ UNCHANGED <<toasts, callVars, hasActiveSession, loadError, asideVars, renderVars, now,
                 infringements, dashRows, popupData, tbody, popupFetching, server, history,
                 pendingPenalties, isApplyingPenalty, paginationPage, paginationLimit,
                 applyCalls, loads>>

\* POST /session/load: the session is active again
SessionLoads ==
  /\ ~sessionActive
  /\ sessionActive' = TRUE
  /\ Broadcast(Frame("session_loaded"))
  /\ UNCHANGED <<toasts, callVars, hasActiveSession, loadError, asideVars, renderVars, now,
                 infringements, dashRows, popupData, tbody, popupFetching, server, history,
                 pendingPenalties, isApplyingPenalty, paginationPage, paginationLimit,
                 applyCalls, loads>>

\* ---- the dashboard: InfringementForm, handleNewInfringement
\* a JavaScript number that Number() yields for the texts of the kart field:
\* NaN, or an integer part and the digits after the point without trailing 0s
NaN == [nan |-> TRUE, int |-> 0, frac |-> <<>>]

JsNumber(int, frac) == [nan |-> FALSE, int |-> int, frac |-> frac]

isFinite(number) == ~number.nan

isInteger(number) == ~number.nan /\ number.frac = <<>>

\* the submit button of the form (disabled while a submit is awaited), up to
\* the POST being sent
handleNewInfringement ==
  \E d \in SystemKinds.disp :
    /\ createCalls = <<>>
    /\ NextId <= MaxStored
    /\ createCalls' = <<[payload |-> d, kart_number |-> JsNumber(42, <<>>),
                          description |-> "White Line Infringement", pc |-> "posting"]>>
    /\ UNCHANGED <<toasts, deleteCalls, editCalls, sessionVars, asideVars, renderVars, now,
                   infringements, dashRows, popupData, tbody, popupFetching, server,
                   history, pendingPenalties, isApplyingPenalty, paginationPage,
                   paginationLimit, applyCalls, loads, dashInbox, popupInbox>>

\* the server handles the POST of the call: stores the record in the active
\* session, or answers with the error of the missing table or of a kart
\* number that is no integer
createInfringement ==
  \E c \in 1..Len(createCalls) :
    /\ createCalls[c].pc = "posting"
    /\ IF sessionActive /\ isInteger(createCalls[c].kart_number)
       THEN /\ CreateOnServer(Record(NextId, createCalls[c].kart_number.int,
                                     createCalls[c].description,
                                     createCalls[c].payload[1], createCalls[c].payload[2],
                                     createCalls[c].payload[3], now))
            /\ createCalls' = [createCalls EXCEPT ![c].pc = "ok"]
       ELSE /\ createCalls' = [createCalls EXCEPT ![c].pc = "rejected"]
            /\ UNCHANGED <<server, history, now, dashInbox, popupInbox>>
    /\ UNCHANGED <<toasts, deleteCalls, editCalls, sessionVars, asideVars, renderVars, infringements,
                   dashRows, popupData, tbody, popupFetching, pendingPenalties,
                   isApplyingPenalty, paginationPage, paginationLimit, applyCalls, loads>>

\* the POST does not reach the server: request throws
CreateRequestFails ==
  \E c \in 1..Len(createCalls) :
    /\ createCalls[c].pc = "posting"
    /\ createCalls' = [createCalls EXCEPT ![c].pc = "rejected"]
    /\ UNCHANGED <<toasts, deleteCalls, editCalls, sessionVars, asideVars, renderVars, now,
                   infringements, dashRows, popupData, tbody, popupFetching, server,
                   history, pendingPenalties, isApplyingPenalty, paginationPage,
                   paginationLimit, applyCalls, loads, dashInbox, popupInbox>>

\* handleNewInfringement after the awaited POST resolved: page 1, loadData(false)
CreateResolved ==
  \E c \in 1..Len(createCalls) :
    /\ createCalls[c].pc = "ok"
    /\ Len(loads) < MaxLoads
    /\ paginationPage' = 1
    /\ loads' = Append(loads, LoadData(NewOwner, paginationPage, paginationLimit))
    /\ createCalls' = [createCalls EXCEPT ![c].pc = "loading"]
    /\ UNCHANGED <<toasts, deleteCalls, editCalls, sessionVars, asideVars, renderVars, now,
                   infringements, dashRows, popupData, tbody, popupFetching, server,
                   history, pendingPenalties, isApplyingPenalty, paginationLimit,
                   applyCalls, dashInbox, popupInbox>>

\* handleNewInfringement after the awaited POST threw: catch
CreateRejected ==
  \E c \in 1..Len(createCalls) :
    /\ createCalls[c].pc = "rejected"
    /\ toasts' = {"Error Creating Infringement"}
    /\ createCalls' = RemoveAt(createCalls, c)
    /\ UNCHANGED <<deleteCalls, editCalls, sessionVars, asideVars, renderVars, now, infringements,
                   dashRows, popupData, tbody, popupFetching, server, history,
                   pendingPenalties, isApplyingPenalty, paginationPage, paginationLimit,
                   applyCalls, loads, dashInbox, popupInbox>>

\* handleNewInfringement after loadData: fetchPendingPenalties() is answered,
\* the success toast, the message to the popup window
CreatePendingResolved ==
  \E c \in 1..Len(createCalls) :
    /\ createCalls[c].pc = "pending"
    /\ sessionActive
    /\ popupFetching < MaxLoads
    /\ pendingPenalties' = PendingOf(server)
    /\ toasts' = {"Infringement created successfully"}
    /\ popupFetching' = popupFetching + 1
    /\ createCalls' = RemoveAt(createCalls, c)
    /\ UNCHANGED <<deleteCalls, editCalls, sessionVars, asideVars, renderVars, now, infringements,
                   dashRows, popupData, tbody, server, history, isApplyingPenalty,
                   paginationPage, paginationLimit, applyCalls, loads, dashInbox,
                   popupInbox>>

\* handleNewInfringement after loadData: fetchPendingPenalties() threw, catch
CreatePendingRejected ==
  \E c \in 1..Len(createCalls) :
    /\ createCalls[c].pc = "pending"
    /\ toasts' = {"Error Creating Infringement"}
    /\ createCalls' = RemoveAt(createCalls, c)
    /\ UNCHANGED <<deleteCalls, editCalls, sessionVars, asideVars, renderVars, now, infringements,
                   dashRows, popupData, tbody, popupFetching, server, history,
                   pendingPenalties, isApplyingPenalty, paginationPage, paginationLimit,
                   applyCalls, loads, dashInbox, popupInbox>>

\* wsManager hands a frame to the handler App subscribed at mount; the loadData of
\* that closure reads the pagination state of the first render
onMessage(inFlight) ==
  /\ dashInbox # <<>>
  /\ dashInbox' = Tail(dashInbox)
  /\ LET message == Head(dashInbox)
     IN IF message.json /\ Truthy(message.type) /\ message.type \in relevantTypes
        THEN /\ Len(loads) < inFlight
             /\ loads' = Append(loads, LoadData(0, 1, DefaultLimit))
        ELSE UNCHANGED loads
  /\ UNCHANGED <<toasts, callVars, sessionVars, asideVars, renderVars, now, infringements, dashRows, popupData, tbody,
                 popupFetching, server, history, pendingPenalties, isApplyingPenalty,
                 paginationPage, paginationLimit, applyCalls, popupInbox>>

DashboardOnMessage == onMessage(MaxLoads)

\* the same handler, with a second re-fetch started while one is in flight
MaxOverlap == 2

DashboardOnMessageOverlapping == onMessage(MaxOverlap)

\* ---- the popup window
\* socket.onmessage of the popup script
PopupOnMessage ==
  /\ popupInbox # <<>>
  /\ popupInbox' = Tail(popupInbox)
  /\ LET message == Head(popupInbox)
     IN IF message.json /\ message.type \in popupTypes
        THEN /\ popupFetching < MaxLoads
             /\ popupFetching' = popupFetching + 1
        ELSE UNCHANGED popupFetching
  /\ UNCHANGED <<toasts, callVars, sessionVars, asideVars, renderVars, now, infringements, dashRows, popupData, tbody, server,
                 history, pendingPenalties, isApplyingPenalty, paginationPage,
                 paginationLimit, applyCalls, loads, dashInbox>>

\* refreshTable: the fetch of page 1, limit 1000 is answered and the rows are written
refreshTable ==
  /\ sessionActive
  /\ popupFetching > 0
  /\ popupFetching' = popupFetching - 1
  /\ popupData' = Page(server, 1, PopupLimit)
  /\ tbody' = PopupRows(Page(server, 1, PopupLimit), filterValue, now,
                        WARNING_EXPIRY_MINUTES)
  /\ UNCHANGED <<toasts, callVars, sessionVars, asideVars, renderVars, now, infringements, dashRows, server, history,
                 pendingPenalties, isApplyingPenalty, paginationPage, paginationLimit,
                 applyCalls, loads, dashInbox, popupInbox>>

\* refreshTable: the fetch throws and the one row of the table is the error
refreshTableFails ==
  /\ popupFetching > 0
  /\ popupFetching' = popupFetching - 1
  /\ tbody' = <<>>
  /\ UNCHANGED <<toasts, callVars, sessionVars, asideVars, renderVars, now, infringements, dashRows, popupData, server, history,
                 pendingPenalties, isApplyingPenalty, paginationPage, paginationLimit,
                 applyCalls, loads, dashInbox, popupInbox>>

\* the dashboard has loaded the empty session and opened the popup window
InitDashboard ==
  /\ now = 0
  /\ infringements = <<>>
  /\ warningExpiryMinutes = ExpiryMinutes
  /\ filterType = "all"
  /\ dashRows = <<>>
  /\ plainRows = <<>>
  /\ WARNING_EXPIRY_MINUTES = ExpiryMinutes
  /\ popupData = <<>>
  /\ filterValue = "all"
  /\ tbody = <<>>
  /\ popupFetching = 0
  /\ server = <<>>
  /\ history = <<>>
  /\ pendingPenalties = <<>>
  /\ isApplyingPenalty = FALSE
  /\ paginationPage = 1
  /\ paginationLimit = DefaultLimit
  /\ applyCalls = <<>>
  /\ loads = <<>>
  /\ dashInbox = <<>>
  /\ popupInbox = <<>>
  /\ toasts = {}
  /\ deleteCalls = <<>>
  /\ createCalls = <<>>
  /\ editCalls = <<>>
  /\ sessionActive = TRUE
  /\ hasActiveSession = "true"
  /\ loadError = NULL
  /\ showExpirySettings = FALSE
  /\ passwordDialogOpen = FALSE
  /\ passwordInput = ""
  /\ isSavingConfig = FALSE
  /\ configCalls = <<>>
  /\ serverConfig = ExpiryMinutes
  /\ currentView = "penalty-logging"
  /\ sessionCalls = <<>>

Init == InitDashboard /\ ShellNotStarted /\ WsConstructed /\ FormEmpty

Next ==
  \/ OtherOperatorCreates
  \/ OtherOperatorApplies
  \/ SessionBroadcast
  \/ OtherFrame
  \/ handleApplyPenalty
  \/ applyIndividualPenalty
  \/ ApplyRequestFails
  \/ ApplyPenaltyResolved
  \/ ApplyPenaltyRejected
  \/ checkActiveSession
  \/ fetchInfringements
  \/ fetchPendingPenalties
  \/ LoadDataResolved
  \/ LoadDataFails
  \/ DashboardOnMessage
  \/ PopupOnMessage
  \/ refreshTable
  \/ refreshTableFails

Spec == Init /\ [][Next]_vars

\* applying: one kart and type, warnings and penalties to be applied
AppliedKinds ==
  [kart |-> {42}, desc |-> {"White Line Infringement"},
   disp |-> {<<"Warning", "No", NULL>>, <<"5 Sec", "Yes", NULL>>}]

\* as InitRender, after the dashboard and the popup have loaded and rendered the
\* session; the page of the dashboard holds the whole session
InitApplied ==
  /\ \E n \in 0..MaxRecords : \E ts \in TimesOfLen(n) : \E kind \in [1..n -> KindTuples(AppliedKinds)] :
       infringements =
         [k \in 1..n |->
            Record(n - k + 1, kind[k][1], kind[k][2], kind[k][3][1], kind[k][3][2],
                   kind[k][3][3], ts[k])]
  /\ popupData = infringements
  /\ now \in 0..MaxTime
  /\ \A k \in 1..Len(infringements) : infringements[k].timestamp <= now
  /\ warningExpiryMinutes = ExpiryMinutes
  /\ WARNING_EXPIRY_MINUTES = ExpiryMinutes
  /\ filterType = "all"
  /\ filterValue = "all"
  /\ dashRows = DashTable(infringements, "all", now, ExpiryMinutes)
  /\ plainRows = <<>>
  /\ tbody = PopupRows(infringements, "all", now, ExpiryMinutes)
  /\ popupFetching = 0
  /\ server = infringements
  /\ history = <<>>
  /\ pendingPenalties = PendingOf(infringements)
  /\ isApplyingPenalty = FALSE
  /\ paginationPage = 1
  /\ paginationLimit = MaxRecords + 1
  /\ applyCalls = <<>>
  /\ loads = <<>>
  /\ dashInbox = <<>>
  /\ popupInbox = <<>>
  /\ toasts = {}
  /\ deleteCalls = <<>>
  /\ createCalls = <<>>
  /\ editCalls = <<>>
  /\ sessionActive = TRUE
  /\ hasActiveSession = "true"
  /\ loadError = NULL
  /\ showExpirySettings = FALSE
  /\ passwordDialogOpen = FALSE
  /\ passwordInput = ""
  /\ isSavingConfig = FALSE
  /\ configCalls = <<>>
  /\ serverConfig = ExpiryMinutes
  /\ currentView = "penalty-logging"
  /\ sessionCalls = <<>>
  /\ ShellNotStarted
  /\ WsConstructed
  /\ FormEmpty

\* the operator applies pending penalties and nothing else happens: nobody logs,
\* no minute passes, and the frames of the dashboard's socket are not delivered
NextApplied ==
  \/ handleApplyPenalty
  \/ applyIndividualPenalty
  \/ ApplyRequestFails
  \/ ApplyPenaltyResolved
  \/ ApplyPenaltyRejected
  \/ checkActiveSession
  \/ fetchInfringements
  \/ fetchPendingPenalties
  \/ LoadDataResolved
  \/ LoadDataFails
  \/ PopupOnMessage
  \/ refreshTable
  \/ refreshTableFails

SpecApplied == InitApplied /\ [][NextApplied]_vars

\* deleting from the popup window
NextPopupDelete ==
  \/ OtherOperatorCreates
  \/ popupHandleDelete
  \/ popupDelete
  \/ PopupDeleteResolved
  \/ handleMessage
  \/ deleteInfringement
  \/ DeleteRequestFails
  \/ DeleteRejected
  \/ checkActiveSession
  \/ fetchInfringements
  \/ fetchPendingPenalties
  \/ LoadDataResolved
  \/ LoadDataFails
  \/ DashboardOnMessage
  \/ PopupOnMessage
  \/ refreshTable
  \/ refreshTableFails

SpecPopupDelete == Init /\ [][NextPopupDelete]_vars

\* deleting: this dashboard and another operator delete what was logged
NextDelete ==
  \/ OtherOperatorCreates
  \/ OtherOperatorDeletes
  \/ handleDeleteInfringement
  \/ deleteInfringement
  \/ DeleteRequestFails
  \/ DeleteResolved
  \/ DeleteRejected
  \/ checkActiveSession
  \/ fetchInfringements
  \/ fetchPendingPenalties
  \/ LoadDataResolved
  \/ LoadDataFails
  \/ DashboardOnMessage
  \/ PopupOnMessage
  \/ refreshTable
  \/ refreshTableFails

SpecDelete == Init /\ [][NextDelete]_vars

\* sessions: the session is closed and loaded again while the operator logs
\* infringements with the form
NextSession ==
  \/ SessionCloses
  \/ SessionLoads
  \/ handleNewInfringement
  \/ createInfringement
  \/ CreateRequestFails
  \/ CreateResolved
  \/ CreateRejected
  \/ CreatePendingResolved
  \/ CreatePendingRejected
  \/ checkActiveSession
  \/ checkActiveSessionFails
  \/ fetchInfringements
  \/ fetchPendingPenalties
  \/ LoadDataResolved
  \/ LoadDataFails
  \/ LoadDataFailsNoSession
  \/ DashboardOnMessage
  \/ PopupOnMessage
  \/ refreshTable
  \/ refreshTableFails

SpecSession == Init /\ [][NextSession]_vars

\* editing: records are logged, the operator shows more than the first page
\* and edits rows
NextEdit ==
  \/ OtherOperatorCreates
  \/ handlePageSizeChange
  \/ handleSaveEdit
  \/ updateInfringement
  \/ EditRequestFails
  \/ EditResolved
  \/ EditRejected
  \/ EditPendingResolved
  \/ EditPendingRejected
  \/ checkActiveSession
  \/ fetchInfringements
  \/ fetchPendingPenalties
  \/ LoadDataResolved
  \/ DashboardOnMessage
  \/ PopupOnMessage
  \/ refreshTable

SpecEdit == Init /\ [][NextEdit]_vars

\* the expiry settings: the switch, the password dialog, the Minutes field and
\* its Save button
NextSettings ==
  \/ handleToggleExpirySettings
  \/ setPasswordInput
  \/ handlePasswordSubmit
  \/ PasswordDialogCancel
  \/ PasswordDialogDismiss
  \/ setWarningExpiryMinutes
  \/ handleSaveExpiryMinutes
  \/ updateConfig
  \/ ConfigRequestFails
  \/ ConfigResolved
  \/ ConfigRejected

SpecSettings == Init /\ [][NextSettings]_vars

\* no request of a handler is awaited, no loadData is running, no frame is on
\* its way and the popup window is not fetching
Idle ==
  /\ dashInbox = <<>>
  /\ popupInbox = <<>>
  /\ popupFetching = 0
  /\ applyCalls = <<>>
  /\ deleteCalls = <<>>
  /\ createCalls = <<>>
  /\ editCalls = <<>>
  /\ configCalls = <<>>
  /\ sessionCalls = <<>>
  /\ loads = <<>>

\* the operator at the dashboard, doing one thing at a time and logging up to
\* MaxTime infringements
OperatorAtDashboard ==
  /\ Idle
  /\ currentView = "penalty-logging"
  /\ \/ now < MaxTime /\ handleNewInfringement
     \/ handleSaveEdit
     \/ handleDeleteInfringement
     \/ handleApplyPenalty
     \/ handleSaveExpiryMinutes
     \/ handleBackToSessions

\* the operator at the session manager, doing one thing at a time
OperatorAtManager ==
  /\ Idle
  /\ \/ handleCreateSession
     \/ handleLoadSession
     \/ handleDeleteConfirm
     \/ handleImport

\* every mutation of the client, each of which the server may refuse and the
\* network may lose
NextMutations ==
  \/ OperatorAtDashboard
  \/ OperatorAtManager
  \/ createInfringement
  \/ CreateRequestFails
  \/ CreateResolved
  \/ CreateRejected
  \/ CreatePendingResolved
  \/ CreatePendingRejected
  \/ updateInfringement
  \/ EditRequestFails
  \/ EditResolved
  \/ EditRejected
  \/ EditPendingResolved
  \/ EditPendingRejected
  \/ deleteInfringement
  \/ DeleteRequestFails
  \/ DeleteResolved
  \/ DeleteRejected
  \/ applyIndividualPenalty
  \/ ApplyRequestFails
  \/ ApplyPenaltyResolved
  \/ ApplyPenaltyRejected
  \/ updateConfig
  \/ ConfigRequestFails
  \/ ConfigResolved
  \/ ConfigRejected
  \/ sessionRequest
  \/ SessionRequestFails
  \/ ManagerResolved
  \/ ManagerRejected
  \/ checkActiveSession
  \/ fetchInfringements
  \/ fetchPendingPenalties
  \/ LoadDataResolved
  \/ DashboardOnMessage
  \/ PopupOnMessage
  \/ refreshTable

\* as Init, after the operator has entered the password of the expiry settings
InitMutations ==
  /\ now = 0
  /\ infringements = <<>>
  /\ warningExpiryMinutes = ExpiryMinutes
  /\ filterType = "all"
  /\ dashRows = <<>>
  /\ plainRows = <<>>
  /\ WARNING_EXPIRY_MINUTES = ExpiryMinutes
  /\ popupData = <<>>
  /\ filterValue = "all"
  /\ tbody = <<>>
  /\ popupFetching = 0
  /\ server = <<>>
  /\ history = <<>>
  /\ pendingPenalties = <<>>
  /\ isApplyingPenalty = FALSE
  /\ paginationPage = 1
  /\ paginationLimit = DefaultLimit
  /\ applyCalls = <<>>
  /\ loads = <<>>
  /\ dashInbox = <<>>
  /\ popupInbox = <<>>
  /\ toasts = {}
  /\ deleteCalls = <<>>
  /\ createCalls = <<>>
  /\ editCalls = <<>>
  /\ sessionActive = TRUE
  /\ hasActiveSession = "true"
  /\ loadError = NULL
  /\ showExpirySettings = TRUE
  /\ passwordDialogOpen = FALSE
  /\ passwordInput = ""
  /\ isSavingConfig = FALSE
  /\ configCalls = <<>>
  /\ serverConfig = ExpiryMinutes
  /\ currentView = "penalty-logging"
  /\ sessionCalls = <<>>
  /\ ShellNotStarted
  /\ WsConstructed
  /\ FormEmpty

SpecMutations == InitMutations /\ [][NextMutations]_vars

\* ------------------------------------------------------- the desktop shell
MaxStartups == 2   \* the startApplication runs: app.whenReady and one activate
MaxSubmits == 2    \* the submit-license calls of the loading page

Fingerprints == {"A", "B"}

\* the hex digest of the HMAC of a fingerprint, cut to its first 16 digits
hmacHex(fingerprint) == IF fingerprint = "A" THEN "3f" ELSE "c7"

toUpperCase(piece) ==
  CASE piece = "3f" -> "3F"
    [] piece = "c7" -> "C7"
    [] OTHER -> piece

RECURSIVE trimStart(_)
trimStart(code) ==
  IF code # <<>> /\ Head(code) = " " THEN trimStart(Tail(code)) ELSE code

RECURSIVE trimEnd(_)
trimEnd(code) ==
  IF code # <<>> /\ code[Len(code)] = " "
  THEN trimEnd(SubSeq(code, 1, Len(code) - 1))
  ELSE code

trim(code) == trimEnd(trimStart(code))

deriveLicense(fingerprint) == <<"LIC-", toUpperCase(hmacHex(fingerprint))>>

\* a variant that accepts the license of any device
validateLicenseOfAnyDevice(code, fingerprint) ==
  /\ code # NotAString
  /\ \E f \in Fingerprints : trim(code) = deriveLicense(f)

validateLicense(code, fingerprint) ==
  /\ code # NotAString
  /\ trim(code) = deriveLicense(fingerprint)

\* what license.json may hold and what the loading page may submit
LicenseCodes ==
  {NotAString, <<>>, <<"LIC-", "3F">>, <<" ", "LIC-", "3F", " ">>, <<"LIC-", "3f">>,
   <<"LIC-", "C7">>}

windowOpen == mainWindow \notin {"none", "destroyed", "quit"}

\* mainWindow.webContents.send('license-needed', ...) behind the window check
sendLicenseNeeded ==
  IF windowOpen /\ mainWindow = "loading.html" THEN "license-needed" ELSE mainWindow

StartupRun(pc, license) ==
  [pc |-> pc, license |-> license, composed |-> FALSE, healthy |-> FALSE]

\* createWindow, then startApplication up to the end of ensureLicense
createWindowAndStart ==
  /\ Len(startups) < MaxStartups
  /\ currentFingerprint' = device
  /\ IF validateLicense(storedLicense, device)
     THEN /\ startups' = Append(startups, StartupRun("detectDocker", storedLicense))
          /\ mainWindow' = "loading.html"
          /\ UNCHANGED pendingLicenseResolve
     ELSE /\ startups' = Append(startups, StartupRun("ensureLicense", NotAString))
          /\ mainWindow' = "license-needed"
          /\ pendingLicenseResolve' = Len(startups) + 1
  /\ UNCHANGED <<device, storedLicense, submitReplies>>
  /\ UNCHANGED <<wsVars, formVars, settingsVars, managerVars, toasts, callVars,
                 sessionVars, renderVars, dashVars>>

\* app.whenReady().then(...)
AppReady ==
  /\ mainWindow = "none"
  /\ createWindowAndStart

\* app.on('activate'): no window is left
AppActivate ==
  /\ mainWindow = "destroyed"
  /\ createWindowAndStart

\* the window is closed; window-all-closed quits the app except on darwin
WindowAllClosed ==
  /\ windowOpen
  /\ mainWindow' \in {"destroyed", "quit"}
  /\ UNCHANGED <<device, storedLicense, currentFingerprint, pendingLicenseResolve,
                 startups, submitReplies>>
  /\ UNCHANGED <<wsVars, formVars, settingsVars, managerVars, toasts, callVars,
                 sessionVars, renderVars, dashVars>>

\* ipcMain.handle('submit-license'): the page of the window calls submitLicense
SubmitLicense ==
  \E code \in LicenseCodes :
    LET fingerprint == IF currentFingerprint # "" THEN currentFingerprint ELSE device IN
    /\ windowOpen
    /\ Len(submitReplies) < MaxSubmits
    /\ IF validateLicense(code, fingerprint)
       THEN /\ storedLicense' = trim(code)
            /\ IF pendingLicenseResolve # 0
               THEN startups' = [startups EXCEPT
                                   ![pendingLicenseResolve].pc = "detectDocker",
                                   ![pendingLicenseResolve].license = trim(code)]
               ELSE UNCHANGED startups
            /\ pendingLicenseResolve' = 0
            /\ submitReplies' = Append(submitReplies, [code |-> code, answer |-> "success: true"])
            /\ UNCHANGED mainWindow
       ELSE /\ mainWindow' = sendLicenseNeeded
            /\ submitReplies' = Append(submitReplies, [code |-> code, answer |-> "success: false"])
            /\ UNCHANGED <<storedLicense, startups, pendingLicenseResolve>>
    /\ UNCHANGED <<device, currentFingerprint>>
    /\ UNCHANGED <<wsVars, formVars, settingsVars, managerVars, toasts, callVars,
                   sessionVars, renderVars, dashVars>>

\* persistLicense throws (the file cannot be written): the handler rejects
\* before it resolves the promise or answers
SubmitLicensePersistFails ==
  \E code \in LicenseCodes :
    LET fingerprint == IF currentFingerprint # "" THEN currentFingerprint ELSE device IN
    /\ windowOpen
    /\ Len(submitReplies) < MaxSubmits
    /\ validateLicense(code, fingerprint)
    /\ submitReplies' = Append(submitReplies, [code |-> code, answer |-> "rejected"])
    /\ UNCHANGED <<device, storedLicense, currentFingerprint, pendingLicenseResolve,
                   startups, mainWindow>>
    /\ UNCHANGED <<wsVars, formVars, settingsVars, managerVars, toasts, callVars,
                   sessionVars, renderVars, dashVars>>

\* one awaited step of startApplication returns and the next one begins
StartupStep(r, from, to) ==
  /\ startups[r].pc = from
  /\ startups' = [startups EXCEPT ![r].pc = to,
                                  ![r].composed = @ \/ to = "up -d"]
  /\ UNCHANGED <<device, storedLicense, currentFingerprint, pendingLicenseResolve,
                 mainWindow, submitReplies>>
  /\ UNCHANGED <<wsVars, formVars, settingsVars, managerVars, toasts, callVars,
                 sessionVars, renderVars, dashVars>>

appRunning == mainWindow # "quit"

\* docker info answers, at once or after Docker Desktop was started
detectDocker ==
  \E r \in 1..Len(startups) :
    appRunning /\ StartupStep(r, "detectDocker", "loadDockerImages")

\* the three images are loaded; resolveComposeCommand finds a compose
\* command and startDockerCompose issues up -d
loadDockerImages ==
  \E r \in 1..Len(startups) :
    appRunning /\ StartupStep(r, "loadDockerImages", "up -d")

\* up -d returns
startDockerCompose ==
  \E r \in 1..Len(startups) :
    appRunning /\ StartupStep(r, "up -d", "waitForBackend")

\* an awaited step throws: Docker is not available, an image is missing,
\* compose is not found, up -d fails, the backend does not become healthy
StartupFails ==
  \E r \in 1..Len(startups) :
    \E from \in {"detectDocker", "loadDockerImages", "up -d", "waitForBackend"} :
      appRunning /\ StartupStep(r, from, "failed")

\* /api/health answers 200 within the 30 tries; the window, if there is one,
\* is sent to the web UI
waitForBackend ==
  \E r \in 1..Len(startups) :
    /\ appRunning
    /\ startups[r].pc = "waitForBackend"
    /\ startups' = [startups EXCEPT ![r].pc = "done", ![r].healthy = TRUE]
    /\ mainWindow' = IF windowOpen THEN "http://localhost:3002" ELSE mainWindow
    /\ UNCHANGED <<device, storedLicense, currentFingerprint, pendingLicenseResolve,
                   submitReplies>>
    /\ UNCHANGED <<wsVars, formVars, settingsVars, managerVars, toasts, callVars,
                   sessionVars, renderVars, dashVars>>

\* the machine the shell is installed on, with whatever license.json an
\* earlier run or a copy from another machine left
ShellInstalled ==
  /\ device \in Fingerprints
  /\ storedLicense \in LicenseCodes
  /\ currentFingerprint = ""
  /\ pendingLicenseResolve = 0
  /\ startups = <<>>
  /\ mainWindow = "none"
  /\ submitReplies = <<>>

InitShell == InitDashboard /\ ShellInstalled /\ WsConstructed /\ FormEmpty

NextShell ==
  \/ AppReady
  \/ AppActivate
  \/ WindowAllClosed
  \/ SubmitLicense
  \/ SubmitLicensePersistFails
  \/ detectDocker
  \/ loadDockerImages
  \/ startDockerCompose
  \/ StartupFails
  \/ waitForBackend

SpecShell == InitShell /\ [][NextShell]_vars

\* ------------------------------------------------- the shared WebSocket
MaxSockets == 3         \* the WebSockets the manager constructs
MaxInitialTimers == 2   \* the initialDelay timers pending at one time

maxReconnectAttempts == 10

\* what getWebSocketUrl returns: a ws URL, or for an API_BASE without a
\* scheme a text the WebSocket constructor rejects
Urls == {"ws://localhost:8000/ws", "racecontrol:8000/ws"}

CONNECTING == 0
OPEN == 1
CLOSING == 2
CLOSED == 3

wsOtherVars == <<shellVars, formVars, settingsVars, managerVars, toasts, callVars,
                 sessionVars, renderVars, dashVars>>

\* this.socket?.readyState === WebSocket.OPEN
socketIsOpen == socket # 0 /\ sockets[socket].readyState = OPEN

\* setTimeout returns a timer that is none of the pending ones
newTimer(pending) ==
  CHOOSE a \in 1..(Cardinality(pending) + 1) :
    /\ a \notin pending
    /\ \A b \in 1..(a - 1) : b \in pending

\* connect(), run with the timers and the attempts the caller leaves
baseReconnectDelay == 100

RECURSIVE pow2(_)
pow2(n) == IF n = 0 THEN 1 ELSE 2 * pow2(n - 1)

\* the delay socket.onclose computes
closeDelay(attempts) ==
  IF attempts = 0 THEN baseReconnectDelay
  ELSE IF attempts < 3 THEN baseReconnectDelay * pow2(attempts)
  ELSE Min(baseReconnectDelay * pow2(attempts), 5000)

\* the delay the catch of connect computes
catchDelay(attempts) == Min(baseReconnectDelay * pow2(attempts), 30000)

\* a variant that never gives up
mayReconnectAlways(attempts) == TRUE

\* this.reconnectAttempts < this.maxReconnectAttempts
mayReconnect(attempts) == attempts < maxReconnectAttempts

\* clearTimeout(id) on the pending timers
clearTimeout(timers, id) == {t \in timers : t.id # id}

\* setTimeout(callback, delay): the new timer
setTimeout(timers, delay) == [id |-> newTimer({t.id : t \in timers}), delay |-> delay]

connectFrom(timers, attempts) ==
  IF socketIsOpen \/ isConnecting
  THEN /\ reconnectTimers' = timers
       /\ UNCHANGED <<sockets, socket, reconnectTimeout, isConnecting>>
  ELSE IF url = "ws://localhost:8000/ws"
  THEN /\ Len(sockets) < MaxSockets
       /\ reconnectTimers' = clearTimeout(timers, reconnectTimeout)
       /\ reconnectTimeout' = 0
       /\ isConnecting' = TRUE
       /\ sockets' = Append(sockets, [readyState |-> CONNECTING, opened |-> FALSE,
                                      inbox |-> FALSE])
       /\ socket' = Len(sockets) + 1
  ELSE \* new WebSocket(this.url) throws
       /\ isConnecting' = FALSE
       /\ IF mayReconnect(attempts)
          THEN LET kept == clearTimeout(timers, reconnectTimeout)
                   timer == setTimeout(kept, catchDelay(attempts))
               IN /\ reconnectTimeout' = timer.id
                  /\ reconnectTimers' = kept \cup {timer}
          ELSE /\ reconnectTimeout' = 0
               /\ reconnectTimers' = clearTimeout(timers, reconnectTimeout)
       /\ UNCHANGED <<sockets, socket>>

\* subscribe(handler)
subscribe ==
  \E h \in Handlers \ handlers :
    /\ handlers' = handlers \cup {h}
    /\ IF socketIsOpen
       THEN UNCHANGED <<sockets, socket, reconnectTimeout, isConnecting, reconnectTimers,
                        initialTimers>>
       ELSE IF ~hasConnectedOnce /\ reconnectAttempts = 0
       THEN /\ initialTimers < MaxInitialTimers
            /\ initialTimers' = initialTimers + 1
            /\ UNCHANGED <<sockets, socket, reconnectTimeout, isConnecting,
                           reconnectTimers>>
       ELSE /\ connectFrom(reconnectTimers, reconnectAttempts)
            /\ UNCHANGED initialTimers
    /\ UNCHANGED <<reconnectAttempts, hasConnectedOnce, url, delivered, wsOtherVars>>

\* the function subscribe returned, called by the cleanup of the effect
unsubscribe ==
  \E h \in handlers :
    /\ handlers' = handlers \ {h}
    /\ UNCHANGED <<sockets, socket, reconnectTimeout, reconnectAttempts, isConnecting,
                   hasConnectedOnce, initialTimers, reconnectTimers, url, delivered,
                   wsOtherVars>>

\* the initialDelay timer of a subscribe fires
InitialTimerFires ==
  /\ initialTimers > 0
  /\ initialTimers' = initialTimers - 1
  /\ IF socketIsOpen
     THEN UNCHANGED <<sockets, socket, reconnectTimeout, isConnecting, reconnectTimers>>
     ELSE connectFrom(reconnectTimers, reconnectAttempts)
  /\ UNCHANGED <<reconnectAttempts, handlers, hasConnectedOnce, url, delivered,
                 wsOtherVars>>

\* a reconnect timer fires: reconnectAttempts++, connect()
ReconnectTimerFires ==
  \E t \in reconnectTimers :
    /\ reconnectAttempts' = reconnectAttempts + 1
    /\ connectFrom(reconnectTimers \ {t}, reconnectAttempts + 1)
    /\ UNCHANGED <<handlers, hasConnectedOnce, initialTimers, url, delivered,
                   wsOtherVars>>

\* the handshake of a socket succeeds: onopen
SocketOpens ==
  \E i \in 1..Len(sockets) :
    /\ sockets[i].readyState = CONNECTING
    /\ sockets' = [sockets EXCEPT ![i].readyState = OPEN, ![i].opened = TRUE]
    /\ isConnecting' = FALSE
    /\ reconnectAttempts' = 0
    /\ hasConnectedOnce' = TRUE
    /\ UNCHANGED <<socket, reconnectTimeout, handlers, initialTimers, reconnectTimers,
                   url, delivered, wsOtherVars>>

\* the server starts the closing handshake of an open socket: the browser
\* sets readyState to CLOSING and fires no event yet
SocketClosing ==
  \E i \in 1..Len(sockets) :
    /\ sockets[i].readyState = OPEN
    /\ sockets' = [sockets EXCEPT ![i].readyState = CLOSING]
    /\ UNCHANGED <<socket, reconnectTimeout, reconnectAttempts, handlers, isConnecting,
                   hasConnectedOnce, initialTimers, reconnectTimers, url, delivered,
                   wsOtherVars>>

\* the close codes a socket can end with: 1006 when it never opened
CloseCodes(s) == IF s.opened THEN {1000, 1001, 1006} ELSE {1006}

\* a socket is closed: onerror when the closure is abnormal, then onclose
SocketCloses ==
  \E i \in 1..Len(sockets) :
    \E code \in CloseCodes(sockets[i]) :
      /\ sockets[i].readyState # CLOSED
      /\ sockets' = [sockets EXCEPT ![i].readyState = CLOSED, ![i].inbox = FALSE]
      /\ isConnecting' = FALSE
      /\ socket' = 0
      /\ IF code # 1000 /\ mayReconnect(reconnectAttempts)
         THEN LET timer == setTimeout(reconnectTimers, closeDelay(reconnectAttempts))
              IN /\ reconnectTimeout' = timer.id
                 /\ reconnectTimers' = reconnectTimers \cup {timer}
         ELSE UNCHANGED <<reconnectTimeout, reconnectTimers>>
      /\ UNCHANGED <<reconnectAttempts, handlers, hasConnectedOnce, initialTimers, url,
                     delivered, wsOtherVars>>

\* disconnect(), the beforeunload listener of a page that then stays
disconnect ==
  /\ reconnectTimers' = clearTimeout(reconnectTimers, reconnectTimeout)
  /\ reconnectTimeout' = 0
  /\ IF socket # 0
     THEN sockets' = [sockets EXCEPT ![socket].readyState =
                                       IF @ = CLOSED THEN CLOSED ELSE CLOSING]
     ELSE UNCHANGED sockets
  /\ socket' = 0
  /\ handlers' = {}
  /\ UNCHANGED <<reconnectAttempts, isConnecting, hasConnectedOnce, initialTimers, url,
                 delivered, wsOtherVars>>

\* the server broadcasts one frame: it is sent on every open connection
ServerBroadcasts ==
  /\ \A h \in Handlers : delivered[h] = 0
  /\ \E i \in 1..Len(sockets) : sockets[i].readyState = OPEN
  /\ \A i \in 1..Len(sockets) : ~sockets[i].inbox
  /\ sockets' = [i \in 1..Len(sockets) |->
                   [sockets[i] EXCEPT !.inbox = sockets[i].readyState = OPEN]]
  /\ UNCHANGED <<socket, reconnectTimeout, reconnectAttempts, handlers, isConnecting,
                 hasConnectedOnce, initialTimers, reconnectTimers, url, delivered,
                 wsOtherVars>>

\* socket.onmessage: the frame is parsed and every handler is called
SocketOnMessage ==
  \E i \in 1..Len(sockets) :
    /\ sockets[i].inbox
    /\ sockets' = [sockets EXCEPT ![i].inbox = FALSE]
    /\ delivered' = [h \in Handlers |->
                       IF h \in handlers THEN delivered[h] + 1 ELSE delivered[h]]
    /\ UNCHANGED <<socket, reconnectTimeout, reconnectAttempts, handlers, isConnecting,
                   hasConnectedOnce, initialTimers, reconnectTimers, url, wsOtherVars>>

WsLoaded ==
  /\ sockets = <<>>
  /\ socket = 0
  /\ reconnectTimeout = 0
  /\ reconnectAttempts = 0
  /\ handlers = {}
  /\ isConnecting = FALSE
  /\ hasConnectedOnce = FALSE
  /\ initialTimers = 0
  /\ reconnectTimers = {}
  /\ url \in Urls
  /\ delivered = [h \in Handlers |-> 0]

InitWs == InitDashboard /\ ShellNotStarted /\ WsLoaded /\ FormEmpty

NextWs ==
  \/ subscribe
  \/ unsubscribe
  \/ InitialTimerFires
  \/ ReconnectTimerFires
  \/ SocketOpens
  \/ SocketClosing
  \/ SocketCloses
  \/ disconnect
  \/ ServerBroadcasts
  \/ SocketOnMessage

SpecWs == InitWs /\ [][NextWs]_vars

\* reconnecting: App is subscribed, the connection was lost and k attempts to
\* reconnect have failed since the last open (the sockets that are closed
\* are left out); the timer that onclose, or the catch of connect, set last
\* is pending
WsReconnecting ==
  /\ sockets = <<>>
  /\ socket = 0
  /\ reconnectAttempts \in 0..(maxReconnectAttempts - 1)
  /\ url \in Urls
  /\ reconnectTimers =
       {[id |-> 1, delay |-> IF url = "ws://localhost:8000/ws"
                             THEN closeDelay(reconnectAttempts)
                             ELSE catchDelay(reconnectAttempts)]}
  /\ reconnectTimeout = 1
  /\ handlers = {"App"}
  /\ isConnecting = FALSE
  /\ hasConnectedOnce \in BOOLEAN
  /\ url = "ws://localhost:8000/ws" \/ ~hasConnectedOnce
  /\ initialTimers = 0
  /\ delivered = [h \in Handlers |-> 0]

InitReconnect == InitDashboard /\ ShellNotStarted /\ WsReconnecting /\ FormEmpty

NextReconnect ==
  \/ subscribe
  \/ InitialTimerFires
  \/ ReconnectTimerFires
  \/ SocketOpens
  \/ SocketClosing
  \/ SocketCloses

\* a timer that stays pending fires
SpecReconnect ==
  InitReconnect /\ [][NextReconnect]_vars /\ WF_vars(ReconnectTimerFires)

\* disconnecting: the components subscribe and never unsubscribe, so that no
\* handler is subscribed exactly before the first subscribe and from a
\* disconnect() to the next subscribe
NextDisconnect ==
  \/ subscribe
  \/ InitialTimerFires
  \/ ReconnectTimerFires
  \/ SocketOpens
  \/ SocketClosing
  \/ SocketCloses
  \/ disconnect
  \/ ServerBroadcasts
  \/ SocketOnMessage

SpecDisconnect == InitWs /\ [][NextDisconnect]_vars

\* ------------------------------------------------ the log-infringement form
DigitChars == <<"0", "1", "2", "3", "4", "5", "6", "7", "8", "9">>

isDigit(c) == \E i \in 1..Len(DigitChars) : DigitChars[i] = c

digitValue(c) == (CHOOSE i \in 1..Len(DigitChars) : DigitChars[i] = c) - 1

allDigits(text) == \A k \in 1..Len(text) : isDigit(text[k])

RECURSIVE valueOfDigits(_)
valueOfDigits(text) ==
  IF text = <<>> THEN 0
  ELSE valueOfDigits(SubSeq(text, 1, Len(text) - 1)) * 10 + digitValue(text[Len(text)])

RECURSIVE withoutTrailingZeros(_)
withoutTrailingZeros(text) ==
  IF text # <<>> /\ text[Len(text)] = "0"
  THEN withoutTrailingZeros(SubSeq(text, 1, Len(text) - 1))
  ELSE text

\* Number(text) for texts of blanks, digits, points and letters: blanks
\* around the text are dropped, the empty text is 0, digits with at most one
\* point are the number they spell, anything else is NaN
Number(text) ==
  LET t == trim(text)
      points == {k \in 1..Len(t) : t[k] = "."}
  IN IF t = <<>> THEN JsNumber(0, <<>>)
     ELSE IF points = {}
     THEN IF allDigits(t) THEN JsNumber(valueOfDigits(t), <<>>) ELSE NaN
     ELSE IF Cardinality(points) = 1
     THEN LET k == CHOOSE q \in points : TRUE
              whole == SubSeq(t, 1, k - 1)
              fraction == SubSeq(t, k + 1, Len(t))
          IN IF allDigits(whole) /\ allDigits(fraction) /\ Len(t) > 1
             THEN JsNumber(valueOfDigits(whole), withoutTrailingZeros(fraction))
             ELSE NaN
     ELSE NaN

\* what the operator may type into the kart number field
KartInputs ==
  {<<>>, <<" ", " ">>, <<"4", "2">>, <<" ", "7">>, <<"1", ".", "5">>, <<"a", "b", "c">>,
   <<"4", "2", "a">>}

formOtherVars == <<toasts, deleteCalls, editCalls, sessionVars, settingsVars, managerVars,
                   shellVars, wsVars, renderVars, dashVars>>

\* onChange of the kart number field
setKartNumber ==
  \E text \in KartInputs \ {kartNumber} :
    /\ kartNumber' = text
    /\ UNCHANGED <<isSubmitting, infringement, penaltyDescription, createCalls, formOtherVars>>

\* what the operator may select in the infringement field and in the penalty field
InfringementInputs == {"White Line Infringement", "Track Limits"}

PenaltyInputs == {"", "Warning", "5 Sec"}

\* onValueChange of the infringement Combobox: the two accrual types preset the
\* penalty field to Warning
setInfringement ==
  \E value \in InfringementInputs \ {infringement} :
    /\ infringement' = value
    /\ penaltyDescription' =
         IF value = "White Line Infringement" \/ value = "Yellow Zone Infringement"
         THEN "Warning" ELSE penaltyDescription
    /\ UNCHANGED <<kartNumber, isSubmitting, createCalls, formOtherVars>>

\* onValueChange of the penalty Combobox, and its Clear button
setPenaltyDescription ==
  \E value \in PenaltyInputs \ {penaltyDescription} :
    /\ penaltyDescription' = value
    /\ UNCHANGED <<kartNumber, isSubmitting, infringement, createCalls, formOtherVars>>

\* penalty_due as the server computes it when it stores the record: a penalty
\* that is neither a warning nor no action is still to be applied
penaltyDueOf(penalty) ==
  IF penalty \in {NULL, "Warning", "No further action"} THEN "No" ELSE "Yes"

\* handleSubmit up to the await: the two early returns, then onSubmit, which
\* is handleNewInfringement up to the POST being sent. The operator submits
\* when no submit is awaited.
handleSubmit ==
  LET finalDescription == IF infringement = "" THEN NULL ELSE infringement
      finalPenaltyDescription == IF penaltyDescription = "" THEN NULL ELSE penaltyDescription
  IN /\ ~isSubmitting
     /\ createCalls = <<>>
     /\ NextId <= MaxStored
     /\ IF kartNumber = <<>> \/ ~isFinite(Number(kartNumber))
        THEN UNCHANGED <<isSubmitting, createCalls>>
        ELSE /\ isSubmitting' = TRUE
             /\ createCalls' = <<[payload |-> <<finalPenaltyDescription,
                                                 penaltyDueOf(finalPenaltyDescription), NULL>>,
                                   kart_number |-> Number(kartNumber),
                                   description |-> finalDescription, pc |-> "posting"]>>
     /\ UNCHANGED <<kartNumber, infringement, penaltyDescription, formOtherVars>>

\* handleSubmit after the await: onSubmit has returned (handleNewInfringement
\* catches what the request throws), the fields are cleared; finally
FormSubmitReturns ==
  /\ isSubmitting
  /\ createCalls = <<>>
  /\ kartNumber' = <<>>
  /\ infringement' = ""
  /\ penaltyDescription' = ""
  /\ isSubmitting' = FALSE
  /\ UNCHANGED <<createCalls, formOtherVars>>

NextForm ==
  \/ setKartNumber
  \/ handleSubmit
  \/ FormSubmitReturns
  \/ createInfringement
  \/ CreateRequestFails
  \/ CreateResolved
  \/ CreateRejected
  \/ CreatePendingResolved
  \/ CreatePendingRejected
  \/ checkActiveSession
  \/ fetchInfringements
  \/ fetchPendingPenalties
  \/ LoadDataResolved
  \/ DashboardOnMessage
  \/ PopupOnMessage
  \/ refreshTable

SpecForm == Init /\ [][NextForm]_vars

\* the form with its infringement and penalty fields, the frames of the sockets
\* left undelivered
NextFirst ==
  \/ setKartNumber
  \/ setInfringement
  \/ setPenaltyDescription
  \/ handleSubmit
  \/ FormSubmitReturns
  \/ createInfringement
  \/ CreateRequestFails
  \/ CreateResolved
  \/ CreateRejected
  \/ CreatePendingResolved
  \/ CreatePendingRejected
  \/ checkActiveSession
  \/ fetchInfringements
  \/ fetchPendingPenalties
  \/ LoadDataResolved

SpecFirst == Init /\ [][NextFirst]_vars

\* other operators log infringements; this dashboard and its popup re-fetch on
\* every frame, no request fails, and re-fetches of the dashboard may overlap
NextOverlap ==
  \/ OtherOperatorCreates
  \/ DashboardOnMessageOverlapping
  \/ checkActiveSession
  \/ fetchInfringements
  \/ fetchPendingPenalties
  \/ LoadDataResolved
  \/ PopupOnMessage
  \/ refreshTable

SpecOverlap == Init /\ [][NextOverlap]_vars

\* ------------------------------------------------------ reading the screens
SeqToSet(list) == {list[k] : k \in 1..Len(list)}

PositionIn(list, id) == CHOOSE k \in 1..Len(list) : list[k].id = id

\* the dashboard table has rendered with the flag of every shown warning readable
DashFlagsShown ==
  /\ filterType \in {"all", "warning-flag"}
  /\ dashRows # <<>> \/ filterType # "all"

DashFlagged == {dashRows[k].id : k \in {j \in 1..Len(dashRows) : dashRows[j].showWarningFlag}}

PopupFlagsShown ==
  /\ filterValue \in {"all", "warning-flag"}
  /\ tbody # <<>> \/ filterValue # "all"

PopupFlagged == {tbody[k].id : k \in {j \in 1..Len(tbody) : tbody[j].showWarningFlag}}

\* ------------------------------------------------ the accrual rule, as specified
AccrualType(r) ==
  CASE r.description = "White Line Infringement" -> "white line"
    [] r.description = "Yellow Zone Infringement" -> "yellow zone"
    [] OTHER -> "none"

SameKartAndType(a, b) ==
  /\ a.kart_number = b.kart_number
  /\ AccrualType(a) = AccrualType(b)
  /\ AccrualType(a) # "none"

LiveWarning(r, t, expiry) ==
  /\ r.penalty_description = "Warning"
  /\ r.penalty_due = "No"
  /\ t - r.timestamp <= expiry

SetMax(S, least) == IF S = {} THEN least ELSE CHOOSE m \in S : \A n \in S : n <= m

\* the current cycle of x's kart and type: since the expiry threshold or the newest
\* penalty-due occurrence, whichever is later
CurrentCycleStart(x, list, t, expiry) ==
  SetMax({p.timestamp : p \in {q \in SeqToSet(list) :
                                 SameKartAndType(q, x) /\ q.penalty_due = "Yes"}}
         \cup {t - expiry}, t - expiry)

\* y stands before x in ascending timestamp order (equal stamps: in list order)
Precedes(list, y, x) ==
  \/ y.timestamp < x.timestamp
  \/ y.timestamp = x.timestamp /\ PositionIn(list, y.id) < PositionIn(list, x.id)

ValidInCycle(x, list, t, expiry) ==
  {y \in SeqToSet(list) :
     /\ SameKartAndType(y, x)
     /\ LiveWarning(y, t, expiry)
     /\ y.timestamp >= CurrentCycleStart(x, list, t, expiry)}

PositionInCycle(x, list, t, expiry) ==
  1 + Cardinality({y \in ValidInCycle(x, list, t, expiry) : Precedes(list, y, x)})

SecondOfCycle(list, t, expiry) ==
  {x.id : x \in {y \in SeqToSet(list) :
                   /\ y \in ValidInCycle(y, list, t, expiry)
                   /\ PositionInCycle(y, list, t, expiry) = 2}}

AtMostOnePerKartAndType(list, flagged) ==
  \A x, y \in SeqToSet(list) :
    (x.id \in flagged /\ y.id \in flagged /\ SameKartAndType(x, y)) => x.id = y.id

\* C1: among the live warnings of one kart and accrual type inside the current
\* cycle, the 2nd-warning flag is shown for exactly the one at position 2 in
\* ascending timestamp order, so at most one warning per kart and type is flagged
C1_FlagExactlyOnSecond ==
  /\ DashFlagsShown =>
       /\ \A x \in SeqToSet(infringements) :
            x \in ValidInCycle(x, infringements, now, warningExpiryMinutes) =>
              (x.id \in DashFlagged
                 <=> PositionInCycle(x, infringements, now, warningExpiryMinutes) = 2)
       /\ AtMostOnePerKartAndType(infringements, DashFlagged)
  /\ PopupFlagsShown =>
       /\ \A x \in SeqToSet(popupData) :
            x \in ValidInCycle(x, popupData, now, WARNING_EXPIRY_MINUTES) =>
              (x.id \in PopupFlagged
                 <=> PositionInCycle(x, popupData, now, WARNING_EXPIRY_MINUTES) = 2)
       /\ AtMostOnePerKartAndType(popupData, PopupFlagged)

\* three live warnings of one kart and type are on screen, the middle one flagged
C1_Witness ==
  /\ DashFlagsShown
  /\ \E x, y, z \in SeqToSet(infringements) :
       /\ x.timestamp < y.timestamp /\ y.timestamp < z.timestamp
       /\ {x, y, z} \subseteq ValidInCycle(y, infringements, now, warningExpiryMinutes)
       /\ DashFlagged = {y.id}

\* the newest penalty-due occurrence of x's kart and type that was logged before x
PenaltiesPriorTo(x, list) ==
  {p \in SeqToSet(list) : SameKartAndType(p, x) /\ p.penalty_due = "Yes" /\ p.id < x.id}

CycleStartPriorTo(x, list, t, expiry) ==
  SetMax({p.timestamp : p \in PenaltiesPriorTo(x, list)} \cup {t - expiry}, t - expiry)

SecondSincePriorPenalty(list, t, expiry) ==
  {x.id : x \in {y \in SeqToSet(list) :
     /\ AccrualType(y) # "none"
     /\ LiveWarning(y, t, expiry)
     /\ y.timestamp >= CycleStartPriorTo(y, list, t, expiry)
     /\ Cardinality({w \in SeqToSet(list) :
                       /\ SameKartAndType(w, y)
                       /\ LiveWarning(w, t, expiry)
                       /\ w.timestamp >= CycleStartPriorTo(y, list, t, expiry)
                       /\ Precedes(list, w, y)}) = 1}}

FlagRespectsCurrentCycle(list, flagged, t, expiry) ==
  \A x \in SeqToSet(list) :
    LET start == CurrentCycleStart(x, list, t, expiry)
    IN /\ x.timestamp < start => x.id \notin flagged
       /\ x.id \in flagged =>
            Cardinality({w \in SeqToSet(list) :
                           /\ SameKartAndType(w, x)
                           /\ LiveWarning(w, t, expiry)
                           /\ w.timestamp >= start
                           /\ Precedes(list, w, x)}) = 1

LiveBefore(x, list, t, expiry) ==
  {w \in SeqToSet(list) :
     SameKartAndType(w, x) /\ LiveWarning(w, t, expiry) /\ Precedes(list, w, x)}

ExpiryDecidesFlag(list, flagged, t, expiry) ==
  \A x \in SeqToSet(list) :
    /\ t - x.timestamp > expiry => x.id \notin flagged
    /\ (AccrualType(x) # "none" /\ LiveWarning(x, t, expiry)) =>
         (x.id \in flagged <=> Cardinality(LiveBefore(x, list, t, expiry)) = 1)

AppliedIds == {history[k].infringement_id :
                 k \in {j \in 1..Len(history) : history[j].action = "penalty_applied"}}

TimesApplied(id) ==
  Cardinality({k \in 1..Len(history) :
                 history[k] = [infringement_id |-> id, action |-> "penalty_applied"]})

ShowsApplied(list, id) ==
  \A k \in 1..Len(list) :
    list[k].id = id => list[k].penalty_due = "No" /\ list[k].penalty_taken # NULL

\* C4: applying is one-way. A record that was applied has penalty_due "No" and a
\* penalty_taken on the server ever after, the re-fetch that follows the apply shows it
\* so, no id is recorded as applied twice, and the dashboard has at most one apply
\* in flight.
C4_ApplyIsOneWay ==
  /\ \A id \in AppliedIds : TimesApplied(id) = 1 /\ ShowsApplied(server, id)
  /\ \A l \in 1..Len(loads) :
       (loads[l].owner # 0 /\ loads[l].items # <<>>) =>
         ShowsApplied(loads[l].items[1], loads[l].owner)
  /\ Len(applyCalls) <= 1

\* a second apply of an applied penalty, sent from a stale pending list, was rejected
C4_Witness ==
  \E c \in 1..Len(applyCalls) :
    /\ applyCalls[c].pc = "rejected"
    /\ applyCalls[c].id \in AppliedIds
    /\ ShowsApplied(server, applyCalls[c].id)

\* ----------------------------------------------- the status rules, as specified
StatusOrder == <<"Applied", "Expired", "Warning", "No action", "Pending", "Cleared">>

RuleMatches(label, r, t, expiry) ==
  CASE label = "Applied" ->
         r.penalty_due = "No" /\ r.penalty_taken # NULL /\ r.penalty_description # "Warning"
    [] label = "Expired" -> r.penalty_description = "Warning" /\ t - r.timestamp > expiry
    [] label = "Warning" -> r.penalty_description = "Warning"
    [] label = "No action" ->
         r.penalty_description = "No further action" /\ r.penalty_due = "No"
    [] label = "Pending" -> r.penalty_due = "Yes"
    [] label = "Cleared" -> TRUE

FirstMatching(r, t, expiry) ==
  StatusOrder[CHOOSE k \in 1..Len(StatusOrder) :
                /\ RuleMatches(StatusOrder[k], r, t, expiry)
                /\ \A j \in 1..(k - 1) : ~RuleMatches(StatusOrder[j], r, t, expiry)]

LabelsFollowOrder(rows, list, t, expiry) ==
  \A k \in 1..Len(rows) :
    rows[k].statusLabel = FirstMatching(list[PositionIn(list, rows[k].id)], t, expiry)

LabelOf(rows, id) == rows[CHOOSE k \in 1..Len(rows) : rows[k].id = id].statusLabel

RowIds(rows) == {rows[k].id : k \in 1..Len(rows)}

\* C6 as stated: a record carries the same status label on every surface that
\* shows it (the dashboard tables and the popup window)
C6_SameLabelOnEverySurface ==
  /\ \A id \in RowIds(dashRows) \cap RowIds(tbody) :
       LabelOf(dashRows, id) = LabelOf(tbody, id)
  /\ \A id \in RowIds(dashRows) \cap RowIds(plainRows) :
       LabelOf(dashRows, id) = LabelOf(plainRows, id)
  /\ \A id \in RowIds(tbody) \cap RowIds(plainRows) :
       LabelOf(tbody, id) = LabelOf(plainRows, id)

Meaningful(pd) == pd # NULL /\ pd # "Warning" /\ pd # "No further action"

PendingOnlyIfMeaningful(rows, list) ==
  \A k \in 1..Len(rows) :
    LET r == list[PositionIn(list, rows[k].id)]
    IN rows[k].statusLabel = "Pending" =>
         (r.penalty_due = "Yes" /\ Meaningful(r.penalty_description))

\* C7 as stated: a row is labelled Pending only if its penalty_due is "Yes" and
\* its penalty_description is a meaningful outcome
C7_PendingOnlyIfMeaningful ==
  /\ PendingOnlyIfMeaningful(dashRows, infringements)
  /\ PendingOnlyIfMeaningful(tbody, popupData)

PenaltiesOf(list) ==
  {r.id : r \in {q \in SeqToSet(list) :
     \/ q.penalty_due = "Yes" /\ Meaningful(q.penalty_description)
     \/ /\ q.penalty_due = "No" /\ q.penalty_taken # NULL
        /\ Meaningful(q.penalty_description)}}

\* C8 as stated: the Penalties filter shows exactly the pending and the applied
\* penalties, on the dashboard table and in the popup window alike
C8_PenaltiesFilter ==
  /\ filterType = "penalties" => RowIds(dashRows) = PenaltiesOf(infringements)
  /\ filterValue = "penalties" => RowIds(tbody) = PenaltiesOf(popupData)

\* ------------------------------------------- the views of one server state
ViewsAreCurrent ==
  /\ infringements = Page(server, paginationPage, paginationLimit)
  /\ dashRows = DashTable(infringements, filterType, now, warningExpiryMinutes)
  /\ popupData = Page(server, 1, PopupLimit)
  /\ tbody = PopupRows(popupData, filterValue, now, WARNING_EXPIRY_MINUTES)

\* C9 as stated: the dashboard table and the popup window, both showing the
\* current records of the server, flag exactly the same infringements
C9_SameFlagInEveryView ==
  (ViewsAreCurrent /\ filterType = "all" /\ filterValue = "all") =>
    \A id \in RowIds(dashRows) \cap RowIds(tbody) :
      id \in DashFlagged <=> id \in PopupFlagged

\* ------------------------------------------------ the change notifications
DashboardTakes(frame) ==
  /\ dashInbox # <<>>
  /\ Head(dashInbox) = frame
  /\ dashInbox' = Tail(dashInbox)

PopupTakes(frame) ==
  /\ popupInbox # <<>>
  /\ Head(popupInbox) = frame
  /\ popupInbox' = Tail(popupInbox)

Frames == {Frame(type) : type \in relevantTypes \cup {"connected"}} \cup {Malformed}

\* C10 as stated: a subscriber, the dashboard or the popup window, starts a re-fetch
\* when it receives a frame of one of the nine types, and only then
C10_EverySubscriberRefetches ==
  [][\A frame \in Frames :
       /\ DashboardTakes(frame) =>
            (Len(loads') = Len(loads) + 1 <=> frame \in {Frame(t) : t \in relevantTypes})
       /\ PopupTakes(frame) =>
            (popupFetching' = popupFetching + 1 <=>
               frame \in {Frame(t) : t \in relevantTypes})]_vars

\* ---- deleting

\* the ids the server had deleted by the time its audit log had n entries
DeletedBy(n) ==
  {history[k].infringement_id :
     k \in {j \in 1..Min(n, Len(history)) : history[j].action = "delete"}}

\* the step in which handleDeleteInfringement resumes for call c
DeleteReturns(c, pc) ==
  /\ c \in 1..Len(deleteCalls)
  /\ deleteCalls[c].pc = pc
  /\ deleteCalls' = RemoveAt(deleteCalls, c)

\* the step in which a loadData issued with the dashboard's own pagination puts
\* its two answers into the state
RefetchLands(l) ==
  /\ l \in 1..Len(loads)
  /\ loads' = RemoveAt(loads, l)
  /\ loads[l].items # <<>>
  /\ loads[l].pending # <<>>
  /\ infringements' = loads[l].items[1]
  /\ pendingPenalties' = loads[l].pending[1]

C11_WitnessFailed ==
  /\ toasts = {"Error Deleting Infringement"}
  /\ infringements # <<>>

\* ---- no active session

\* the requests of a kind of handler that are on their way to the server
Posting(calls) == {c \in 1..Len(calls) : calls[c].pc = "posting"}

\* the No Active Session alert of the dashboard
NoActiveSessionBanner == hasActiveSession = "false"

\* C12: while the client has detected that no session is active, no step sends
\* a create, update, delete or apply request, and no loadData goes on to
\* its two fetches
C12_NoRequestWithoutSession ==
  [][NoActiveSessionBanner =>
       /\ Cardinality(Posting(createCalls')) <= Cardinality(Posting(createCalls))
       /\ Cardinality(Posting(editCalls')) <= Cardinality(Posting(editCalls))
       /\ Cardinality(Posting(deleteCalls')) <= Cardinality(Posting(deleteCalls))
       /\ Cardinality(Posting(applyCalls')) <= Cardinality(Posting(applyCalls))
       /\ hasActiveSession' = "false" =>
            \A l \in 1..Len(loads') :
              loads'[l].checked => \E k \in 1..Len(loads) : loads[k] = loads'[l]]_vars

\* ---- failed requests

ErrorToasts ==
  {"Error Applying Penalty", "Error Creating Infringement", "Error Updating Infringement",
   "Error Deleting Infringement", "Error Loading Data", "Database Error"}

\* after the step an error toast or the Unable to Load Data alert is on the screen
ErrorVisible == toasts' \cap ErrorToasts # {} \/ loadError' # NULL

\* the step in which the handler of a request that failed resumes
RejectedReturns(calls, calls2) ==
  \E c \in 1..Len(calls) : calls[c].pc = "rejected" /\ calls2 = RemoveAt(calls, c)

\* the step in which a loadData call ends although the server, whose session is
\* active, has not answered all of its requests
LoadEndsUnanswered ==
  \E l \in 1..Len(loads) :
    /\ loads' = RemoveAt(loads, l)
    /\ sessionActive
    /\ ~loads[l].checked \/ loads[l].items = <<>> \/ loads[l].pending = <<>>

\* C13: whenever the handler of a failed request resumes (create, delete, apply,
\* the session check and the fetches of loadData), an error is on the screen
\* after the step
C13_EveryFailureShown ==
  [][(\/ RejectedReturns(createCalls, createCalls')
      \/ RejectedReturns(deleteCalls, deleteCalls')
      \/ RejectedReturns(applyCalls, applyCalls')
      \/ RejectedReturns(editCalls, editCalls')
      \/ LoadEndsUnanswered) => ErrorVisible]_vars

\* ---- editing

\* the step in which handleSaveEdit resumes after its PUT, answered with pc
EditResumes(c, pc) ==
  /\ c \in 1..Len(editCalls)
  /\ editCalls[c].pc = pc
  /\ editCalls' # editCalls

\* C15: when the save of an edit of X has succeeded, the handler leaves the
\* list with its length and order, every record other than X with all its
\* fields, and X's row holding the record the server answered; when the save
\* has failed, the handler changes no record
C15_EditChangesOnlyX ==
  [][/\ EditResumes(1, "ok") =>
          /\ Len(infringements') = Len(infringements)
          /\ \A k \in 1..Len(infringements) :
                IF infringements[k].id = editCalls[1].id
                THEN infringements'[k] = editCalls[1].updated[1]
                ELSE infringements'[k] = infringements[k]
     /\ EditResumes(1, "rejected") =>
          /\ infringements' = infringements
          /\ pendingPenalties' = pendingPenalties
          /\ toasts' = {"Error Updating Infringement"}
     /\ EditResumes(1, "pending") => infringements' = infringements]_vars

\* an edit of the second of two rows has been saved: the kart of that row has
\* changed, the row above it is on the screen as before
C15_Witness ==
  /\ toasts = {"Infringement updated successfully"}
  /\ Len(infringements) = 2
  /\ infringements[2].kart_number = 7
  /\ infringements[1].kart_number = 42
  /\ history[Len(history)] = [infringement_id |-> infringements[2].id, action |-> "update"]

\* ---- the password of the expiry settings

\* C19: showExpirySettings becomes true only in a step that starts with the
\* dialog open and the input equal to the password, and that step closes the
\* dialog and clears the input; a step that shows the Incorrect Password toast
\* started from another input, leaves showExpirySettings false and clears the
\* input; the control can always be switched off, and switching it off opens no
\* dialog
C19_PasswordGate ==
  /\ [][/\ (~showExpirySettings /\ showExpirySettings') =>
            /\ passwordDialogOpen
            /\ passwordInput = Password
            /\ ~passwordDialogOpen'
            /\ passwordInput' = ""
        /\ (toasts' = {"Incorrect Password"} /\ toasts' # toasts) =>
            /\ passwordInput # Password
            /\ ~showExpirySettings /\ ~showExpirySettings'
            /\ passwordInput' = ""
        /\ (showExpirySettings /\ ~showExpirySettings') =>
            UNCHANGED <<passwordDialogOpen, passwordInput, toasts>>]_vars
  /\ [](showExpirySettings => ENABLED (handleToggleExpirySettings /\ ~showExpirySettings'))

\* the settings are shown after a wrong password was refused and the right one
\* was submitted
C19_Witness ==
  /\ showExpirySettings
  /\ toasts = {"Incorrect Password"}
  /\ ~passwordDialogOpen
  /\ passwordInput = ""

\* ---- no automatic retry

\* a request of the handler calls is sent in the step: more of them are on
\* their way to the server than before
Sends(calls, calls2) == Cardinality(Posting(calls2)) > Cardinality(Posting(calls))

\* the step is the operator starting a handler: one call is added at the end
\* and no other call changes
Triggered(calls, calls2) ==
  /\ Len(calls2) = Len(calls) + 1
  /\ \A c \in 1..Len(calls) : calls2[c] = calls[c]

\* no call whose request failed is on its way to the server again after the step
NoneResent(calls, calls2) ==
  \A c \in 1..Len(calls) :
    calls[c].pc = "rejected" => \A k \in Posting(calls2) : k <= Len(calls) => calls2[k] # [calls[c] EXCEPT !.pc = "posting"]

\* C14: a request of a mutation (create, update, delete, apply, config update,
\* session start, load, delete, import) is sent only in a step in which the
\* operator starts the handler, from a client on which nothing is awaited;
\* the step in which the handler of a failed request resumes sends nothing,
\* and a failed request is never on its way again
C14_NoAutomaticRetry ==
  [][/\ \A pair \in {<<createCalls, createCalls'>>, <<editCalls, editCalls'>>,
                      <<deleteCalls, deleteCalls'>>, <<applyCalls, applyCalls'>>,
                      <<configCalls, configCalls'>>, <<sessionCalls, sessionCalls'>>} :
          /\ Sends(pair[1], pair[2]) => Triggered(pair[1], pair[2]) /\ Idle
          /\ NoneResent(pair[1], pair[2])
     /\ (\/ RejectedReturns(createCalls, createCalls')
         \/ RejectedReturns(editCalls, editCalls')
         \/ RejectedReturns(deleteCalls, deleteCalls')
         \/ RejectedReturns(applyCalls, applyCalls')
         \/ RejectedReturns(configCalls, configCalls')
         \/ RejectedReturns(sessionCalls, sessionCalls')) =>
          /\ ~Sends(createCalls, createCalls')
          /\ ~Sends(editCalls, editCalls')
          /\ ~Sends(deleteCalls, deleteCalls')
          /\ ~Sends(applyCalls, applyCalls')
          /\ ~Sends(configCalls, configCalls')
          /\ ~Sends(sessionCalls, sessionCalls')]_vars

\* a delete has failed, its error is on the screen, the record is still stored
\* and nothing is on its way to the server
C14_Witness ==
  /\ toasts = {"Error Deleting Infringement"}
  /\ Idle
  /\ server # <<>>
  /\ Len(history) = Len(server)

\* ---- types without accrual

\* the records of the two accrual types
accrualOnly(list) ==
  LET accrues(r) == AccrualType(r) # "none"
  IN SelectSeq(list, accrues)

\* C16: a record of a type other than the two accrual types is never flagged,
\* and the flags of the other records are those they would have if the records
\* of other types were not in the list
C16_OtherTypesNeverCount ==
  /\ DashFlagsShown =>
       /\ \A x \in SeqToSet(infringements) : AccrualType(x) = "none" => x.id \notin DashFlagged
       /\ DashFlagged = SecondOfCycle(accrualOnly(infringements), now, warningExpiryMinutes)
  /\ PopupFlagsShown =>
       /\ \A x \in SeqToSet(popupData) : AccrualType(x) = "none" => x.id \notin PopupFlagged
       /\ PopupFlagged = SecondOfCycle(accrualOnly(popupData), now, WARNING_EXPIRY_MINUTES)

\* a warning and a pending penalty of another type lie between two live white
\* line warnings: the later white line warning is flagged as the second
C16_Witness ==
  /\ DashFlagsShown
  /\ Len(infringements) = 3
  /\ \E x, y, z \in SeqToSet(infringements) :
       /\ AccrualType(x) # "none" /\ AccrualType(z) # "none" /\ AccrualType(y) = "none"
       /\ x.timestamp < y.timestamp /\ y.timestamp < z.timestamp
       /\ LiveWarning(x, now, warningExpiryMinutes)
       /\ y.penalty_due = "Yes"
       /\ DashFlagged = {z.id}

\* C17: the shell issues up -d, and sends the window to the web UI, only in a
\* run whose license validates against the fingerprint of the device; the
\* window shows the web UI only when a run found the backend healthy; a
\* submitted code that does not validate is answered with success false and
\* changes neither license.json nor any run
IsLicenseOf(code, fingerprint) ==
  /\ code # NotAString
  /\ trim(code) = deriveLicense(fingerprint)

Licensed(run) == IsLicenseOf(run.license, device)

InvalidSubmitReturns ==
  /\ Len(submitReplies') = Len(submitReplies) + 1
  /\ ~IsLicenseOf(submitReplies'[Len(submitReplies')].code, device)

C17_LicenseGate ==
  /\ [](\A r \in 1..Len(startups) :
          (startups[r].composed \/ startups[r].pc = "done") => Licensed(startups[r]))
  /\ [](mainWindow = "http://localhost:3002" =>
          \E r \in 1..Len(startups) : startups[r].healthy /\ Licensed(startups[r]))
  /\ [][InvalidSubmitReturns =>
          /\ submitReplies'[Len(submitReplies')].answer = "success: false"
          /\ storedLicense' = storedLicense
          /\ startups' = startups
          /\ pendingLicenseResolve' = pendingLicenseResolve]_vars

C17_Witness ==
  /\ mainWindow = "http://localhost:3002"
  /\ Len(submitReplies) = 2
  /\ submitReplies[1].answer = "success: false"
  /\ submitReplies[2].answer = "success: true"
  /\ ~IsLicenseOf(submitReplies[1].code, device)

\* C18: at no time are two WebSockets of the manager connecting or open, and
\* no handler is called twice with the same frame of the server
LiveSockets == {i \in 1..Len(sockets) : sockets[i].readyState \in {CONNECTING, OPEN}}

C18_OneConnection ==
  /\ Cardinality(LiveSockets) <= 1
  /\ \A h \in Handlers : delivered[h] <= 1

\* C18, the first half alone
C18_OneLiveSocket == Cardinality(LiveSockets) <= 1

\* C18, the second half alone
C18_DeliveredOnce == \A h \in Handlers : delivered[h] <= 1

\* C20: while the kart number field holds no integer (it is empty, holds only
\* blanks, or holds anything but digits), a submit sends no create request
\* and starts no submission, so the fields stay as they are
IsKartInteger(text) ==
  /\ trim(text) # <<>>
  /\ \A k \in 1..Len(trim(text)) :
       trim(text)[k] \in {"0", "1", "2", "3", "4", "5", "6", "7", "8", "9"}

C20_MalformedKartNotSubmitted ==
  [][~IsKartInteger(kartNumber) /\ createCalls = <<>> /\ ~isSubmitting =>
       createCalls' = <<>> /\ ~isSubmitting']_vars

\* C24: every reconnect timer the manager has pending was set with a delay of
\* at most 5000 ms
C24_DelayAtMostFiveSeconds == \A t \in reconnectTimers : t.delay <= 5000

\* C23: a reconnect is scheduled only while fewer than 10 attempts have been
\* made since the last open, every open sets the attempt counter to 0, and
\* reconnecting ends: unless the manager is given more than MaxSockets
\* sockets, there comes a time from which no reconnect timer is pending
Opens ==
  \E i \in 1..Len(sockets) :
    /\ sockets[i].readyState = CONNECTING
    /\ i <= Len(sockets')
    /\ sockets'[i].readyState = OPEN

C23_WitnessReset ==
  /\ reconnectAttempts = 0
  /\ Len(sockets) = 1
  /\ sockets[1].readyState = OPEN

\* C25: disconnect() leaves no reconnect timer pending, and from then until
\* the next subscribe the manager constructs no WebSocket, sets no reconnect
\* timer and calls no handler
C25_QuietAfterDisconnect ==
  /\ [][handlers # {} /\ handlers' = {} => reconnectTimers' = {}]_vars
  /\ [][handlers = {} /\ handlers' = {} =>
          /\ Len(sockets') = Len(sockets)
          /\ reconnectTimers' \subseteq reconnectTimers
          /\ delivered' = delivered]_vars

\* C25 for a manager whose initialDelay timers have all fired
C25_QuietAfterDisconnectLate ==
  [][handlers = {} /\ handlers' = {} /\ initialTimers = 0 =>
       /\ Len(sockets') = Len(sockets)
       /\ reconnectTimers' \subseteq reconnectTimers]_vars

\* C30: when handleSubmit resumes after a create that failed, the fields keep
\* what the operator entered; and a handleNewInfringement call ends with the
\* toast 'Error Creating Infringement' only if its create request failed
CreateToastOnlyForCreate ==
  createCalls # <<>> /\ createCalls' = <<>> /\ "Error Creating Infringement" \in toasts'
    => createCalls[1].pc = "rejected"

FailedSubmitKeepsFields ==
  isSubmitting /\ ~isSubmitting' /\ "Error Creating Infringement" \in toasts
    => <<kartNumber, infringement, penaltyDescription>>'
         = <<kartNumber, infringement, penaltyDescription>>

C30_FailedSubmitKeepsForm ==
  /\ [][FailedSubmitKeepsFields]_vars
  /\ [][CreateToastOnlyForCreate]_vars

\* C30, the toast alone
C30_ToastOnlyForCreate == [][CreateToastOnlyForCreate]_vars

\* C22: a warning that a table showed with the 2nd-warning flag is shown with
\* the flag by every later rendering of the same list at which the warning is
\* itself unexpired, also when earlier warnings of its cycle have expired
RecordOfId(list, id) == CHOOSE r \in SeqToSet(list) : r.id = id

DashKeepsFlag ==
  \A id \in DashFlagged :
    ~isWarningExpired(RecordOfId(infringements, id), now', warningExpiryMinutes)
      => \E k \in 1..Len(dashRows') : dashRows'[k].id = id /\ dashRows'[k].showWarningFlag

PopupKeepsFlag ==
  \A id \in PopupFlagged :
    ~isWarningExpired(RecordOfId(popupData, id), now', WARNING_EXPIRY_MINUTES)
      => \E k \in 1..Len(tbody') : tbody'[k].id = id /\ tbody'[k].showWarningFlag

C22_FlagKeptWhileUnexpired == [][DashKeepsFlag /\ PopupKeepsFlag]_vars

\* C22 for the popup table alone
C22_PopupFlagKeptWhileUnexpired == [][PopupKeepsFlag]_vars

\* C29: while penalties are applied and nothing else happens, a table that shows
\* the same records as before shows the 2nd-warning flag on the same warnings
DashIds == {dashRows[k].id : k \in 1..Len(dashRows)}

PopupIds == {tbody[k].id : k \in 1..Len(tbody)}

DashFlagsStay == DashIds' = DashIds => DashFlagged' = DashFlagged

PopupFlagsStay == PopupIds' = PopupIds => PopupFlagged' = PopupFlagged

C29_ApplyKeepsFlags == [][DashFlagsStay /\ PopupFlagsStay]_vars

\* C29 for the popup table alone
C29_ApplyKeepsPopupFlags == [][PopupFlagsStay]_vars

\* C27: the re-fetch that a frame of the socket starts asks for the page and
\* the page size that the pagination controls hold at that moment
PushRefetchOfSelectedPage ==
  dashInbox # <<>> /\ dashInbox' = Tail(dashInbox) /\ Len(loads') = Len(loads) + 1
    => /\ loads'[Len(loads')].page = paginationPage
       /\ loads'[Len(loads')].limit = paginationLimit

C27_PushRefetchShowsSelectedPage == [][PushRefetchOfSelectedPage]_vars

\* C28: a delete confirmed in the popup sends one DELETE request for its id and
\* no more, and when the popup's DELETE succeeded the dashboard shows no
\* 'Error Deleting Infringement' for it
PopupDeleteCalls == {c \in 1..Len(deleteCalls) : "sent" \in DOMAIN deleteCalls[c]}

OneDeletePerConfirm == \A c \in PopupDeleteCalls : deleteCalls[c].sent <= 1

NoErrorAfterPopupDelete ==
  \A c \in PopupDeleteCalls :
    deleteCalls[c].sent > 1 /\ deleteCalls' = RemoveAt(deleteCalls, c)
      => "Error Deleting Infringement" \notin toasts'

C28_PopupDeleteOnce == []OneDeletePerConfirm /\ [][NoErrorAfterPopupDelete]_vars

\* C28, the error toast alone
C28_NoErrorAfterPopupDelete == [][NoErrorAfterPopupDelete]_vars

\* C21: a record that is the first of its kart and accrual type in the session
\* is stored with penalty_description "Warning" and penalty_due "No"
FirstOfKartAndType(r) ==
  /\ AccrualType(r) # "none"
  /\ \A x \in SeqToSet(server) : SameKartAndType(x, r) => x.id >= r.id

Quiescent == dashInbox = <<>> /\ loads = <<>>

C26_QuiescentMeansCurrent ==
  Quiescent =>
    /\ infringements = Page(server, paginationPage, paginationLimit)
    /\ pendingPenalties = PendingOf(server)

====
